---- MODULE Spec2Model ----
(***************************************************************************)
(* CloudBib synchronization engine: the item sync pass (pull, push, queue  *)
(* drain, cursor commit) of SyncService, the upload queue, and the two     *)
(* LibraryService use cases that feed the queue (addPdfToGroup,            *)
(* saveAnnotations).  One action is one synchronous stretch of a handler:  *)
(* the code between two awaits of a remote call.                           *)
(***************************************************************************)
EXTENDS Integers, Sequences, FiniteSets, TLC

\* ------------------------------------------------------------------ bounds
\* The last day the clock reaches.
MaxDay == 2
\* The items other users created at the remote authority.
MaxRemoteItems == 1
\* createItem calls in one behaviour.
MaxCreates == 1
\* updateItem calls in one behaviour.
MaxLocalEdits == 1
\* Other users' edits at the remote authority in one behaviour.
MaxRemoteEdits == 2
\* addPdfToGroup and saveAnnotations calls in one behaviour.
MaxCalls == 2
\* Other users' uploads of a sidecar in one behaviour.
MaxSidecarEdits == 1
\* openPdfForAnnotate calls in one behaviour.
MaxOpens == 1
\* deleteItem calls in one behaviour.
MaxDeletes == 1
\* Other users' edits in the behaviours that hold soft deletes.
MaxRemoteEditsOfItems == 1

\* openPdfForAnnotate calls in the behaviours of the PDF cache.
MaxCacheOpens == 2
\* storePdf calls in one behaviour.
MaxStores == 2
\* Times a cached file is overwritten from outside in one behaviour.
MaxTampers == 1

\* The items of the remote authority in the behaviours of the pull phase.
MaxBatch == 2

\* The longest annotation list given to mergeAnnotations.
MaxListLen == 2
\* The largest maxRetries a withRetry call is given.
MaxRetriesArg == 3

\* upload_queue.maxRetries INTEGER NOT NULL DEFAULT 5
DefaultMaxRetries == 5

\* ------------------------------------------------------------- timestamps
\* A timestamp is the text the code stores.  datetime('now') of SQLite
\* writes 'YYYY-MM-DD HH:MM:SS' (fmt "sql"); Date.toISOString() writes
\* 'YYYY-MM-DDTHH:MM:SS.sssZ' (fmt "iso").  day is the date part, tick the
\* time of day.
SqlText(t) == [day |-> t.day, tick |-> t.tick, fmt |-> "sql"]

IsoText(t) == [day |-> t.day, tick |-> t.tick, fmt |-> "iso"]

\* The default cursor '1970-01-01T00:00:00Z'.
EpochCursor == [day |-> 0, tick |-> 0, fmt |-> "iso"]

\* The character at index 10 of the text: ' ' (0x20) or 'T' (0x54).
SepCode(f) == IF f = "sql" THEN 32 ELSE 84

\* a > b as the code compares them: as strings (JavaScript >, SQLite text >).
StrGreater(a, b) ==
  \/ a.day > b.day
  \/ /\ a.day = b.day
     /\ \/ SepCode(a.fmt) > SepCode(b.fmt)
        \/ SepCode(a.fmt) = SepCode(b.fmt) /\ a.tick > b.tick

\* a is a later instant than b, whatever the two formats.
After(a, b) == a.day > b.day \/ (a.day = b.day /\ a.tick > b.tick)

\* ------------------------------------------------------------------ state
VARIABLES
  now,          \* the wall clock: [day, tick]
  items,        \* items table: id -> row
  attachments,  \* attachments table: id -> row
  annSets,      \* annotation_sets table: id -> row
  queue,        \* upload_queue table: id -> row
  cursor,       \* sync_state 'lastSyncTimestamp': <<>> or <<text>>
  libRoot,      \* libraries.driveRootId of the group library is set
  remote,       \* the remote authority's items: id -> row
  drive,        \* the file store: sequence of files, a file's id is its index
  driveOnline,  \* the file store is reachable
  pc,           \* position of the sync pass
  since,        \* syncLoop's local lastSync
  pushList,     \* localChanges still to push (row snapshots)
  pendingList,  \* pendingUploads still to process (row snapshots)
  hsnap,        \* what the handler in flight read before its first await
  result,       \* the SyncResult of the pass (the returned value when idle)
  addCall,      \* addPdfToGroup calls awaiting the file store, in order of call
  saveCall,     \* saveAnnotations calls awaiting the file store
  cache,        \* the local PDF cache: checksum of the file name -> the file's bytes
  budget,       \* how many more environment operations the model allows
  unpushed,     \* history: items carrying a local edit no push has delivered
  pushFailed,   \* history: items whose latest push was rejected or failed
  bothChanged,  \* history: the both-sides-changed rows of the pass's response
  passLog,      \* history: the phases the current pass has run
  drainLog,     \* history: the entries the drain selected and handed out so far
  addError,     \* history: the latest addPdfToGroup call's file, what its checks threw
  openCall,     \* openPdfForAnnotate calls awaiting the file store
  openError,    \* history: what the latest openPdfForAnnotate call threw
  storeCall,    \* storePdf calls awaiting copyFile
  storeRet,     \* history: the latest storePdf call that returned, the n-th
  retryCall,    \* the withRetry call in flight, <<>> when there is none
  mergeCall,    \* the arguments and the result of a mergeAnnotations call
  parseCall     \* the argument and the outcome of a parseSidecar call

vars == <<now, items, attachments, annSets, queue, cursor, libRoot, remote,
          drive, driveOnline, pc, since, pushList, pendingList, hsnap, result,
          addCall, saveCall, cache, budget, unpushed, pushFailed, bothChanged,
          passLog, drainLog, addError, openCall,
          openError, storeCall, storeRet, retryCall, mergeCall, parseCall>>

\* ---------------------------------------------------------------- helpers
RemoteItemIds == 1..MaxRemoteItems

\* The id (a uuid) of the k-th item this device creates.
AddedItemId(k) == MaxRemoteItems + k

Range(s) == {s[k] : k \in 1..Len(s)}

\* All orderings of the finite set S as sequences.
Orderings(S) ==
  {s \in [1..Cardinality(S) -> S] : \A a, b \in 1..Cardinality(S) : a # b => s[a] # s[b]}

Extend(f, k, v) == [x \in DOMAIN f \cup {k} |-> IF x = k THEN v ELSE f[x]]

RECURSIVE Pow2(_)
\* Math.pow(2, n)
Pow2(n) == IF n = 0 THEN 1 ELSE 2 * Pow2(n - 1)

RECURSIVE SortedIds(_)
\* The ids of S in ascending order.
SortedIds(S) ==
  IF S = {} THEN <<>>
  ELSE LET m == CHOOSE x \in S : \A y \in S : x <= y
       IN <<m>> \o SortedIds(S \ {m})

NoSnap == [annotations |-> <<>>, localVersion |-> 0, driveFileId |-> 0, attachmentId |-> 0]

ZeroResult == [pushed |-> 0, pulled |-> 0, conflicts |-> 0, errors |-> 0]

\* Before the first addPdfToGroup call.
NoAddError == [file |-> "", threw |-> "none"]

\* The sequence s without its n-th element.
RemoveAt(s, n) == [k \in 1..(Len(s) - 1) |-> IF k < n THEN s[k] ELSE s[k + 1]]

\* Before the drain of a pass: nothing selected, nothing handed out, no
\* upload cancelled.
NoDrain == [selected |-> {}, handed |-> <<>>, cancelled |-> {}]

\* lastSync = (SELECT value ...)?.value ?? '1970-01-01T00:00:00Z'
ReadCursor(c) == IF c = <<>> THEN EpochCursor ELSE c[1]

\* ------------------------------------------------------- remote authority
\* getChanges(since): the items the authority changed after `since`.
GetChanges(rem, s) ==
  LET ids == SortedIds({i \in DOMAIN rem : After(rem[i].modifiedAt, s)})
  IN [k \in 1..Len(ids) |-> [id |-> ids[k], row |-> rem[ids[k]]]]

\* What pushItem(item) can answer: "error" when the call fails for any
\* reason but a version mismatch, "conflict" (409) when the authority's
\* version has advanced past the pushed one, "ok" when it accepts.  With
\* equal versions the authority may accept or reject.
PushOutcomes(rem, id, row) ==
  {"error"} \cup
  (IF id \in DOMAIN rem /\ rem[id].version > row.version THEN {"conflict"}
   ELSE IF id \in DOMAIN rem /\ rem[id].version = row.version THEN {"ok", "conflict"}
   ELSE {"ok"})

\* ------------------------------------------------------------- pull phase
\* INSERT INTO items (...) without the deleted column: deleted defaults to 0.
InsertedRow(r) ==
  [version |-> r.version, modifiedAt |-> r.modifiedAt, title |-> r.title, deleted |-> FALSE]

\* UPDATE items SET title = ?, ..., version = ?, modifiedAt = ?, deleted = ?
OverwrittenRow(l, r) ==
  [version |-> r.version, modifiedAt |-> r.modifiedAt, title |-> r.title, deleted |-> r.deleted]

\* const localDirty = local.modifiedAt > lastSync
LocalDirty(l, s) == StrGreater(l.modifiedAt, s)

RECURSIVE PullLoop(_, _, _)
\* for (const remote of remoteChanges.items) { ... }
PullLoop(resp, st, s) ==
  IF resp = <<>> THEN st
  ELSE LET id == Head(resp).id
           r == Head(resp).row
           its == st.items
           next ==
             IF id \notin DOMAIN its
             THEN [st EXCEPT !.items = Extend(its, id, InsertedRow(r)), !.pulled = @ + 1]
             ELSE IF r.version > its[id].version
                  THEN IF LocalDirty(its[id], s)
                       THEN [st EXCEPT !.conflicts = @ + 1]
                       ELSE [st EXCEPT !.items = [its EXCEPT ![id] = OverwrittenRow(its[id], r)],
                                       !.pulled = @ + 1]
                  ELSE st
       IN PullLoop(Tail(resp), next, s)

\* SELECT * FROM items WHERE modifiedAt > ?  (no ORDER BY)
LocalChanges(its, s) ==
  LET sel == {i \in DOMAIN its : StrGreater(its[i].modifiedAt, s)}
  IN {[k \in 1..Len(o) |-> [id |-> o[k], row |-> its[o[k]]]] : o \in Orderings(sel)}

\* ------------------------------------------------------------ CacheService
Checksums == {"c1", "c2"}

\* The bytes a file can hold: the two PDFs, and bytes that are neither.
FileBytes == {"pdf1", "pdf2", "junk"}

\* computeSHA256(filePath), as a function of the file's bytes.
ComputeSHA256(bytes) ==
  IF bytes = "pdf1" THEN "c1" ELSE IF bytes = "pdf2" THEN "c2" ELSE "cx"

\* The bytes of the PDF whose checksum is c.
BytesOf(c) == CHOOSE b \in FileBytes : ComputeSHA256(b) = c

\* allocatePath(checksum): path.join(pdfsDir, `${checksum}.pdf`)
AllocatePath(c) == <<c>>

\* getPdfPath(checksum): the path when a file exists there, or null (<<>>).
GetPdfPath(ch, c) == IF c \in DOMAIN ch THEN AllocatePath(c) ELSE <<>>

\* isValid(localPath, expectedChecksum)
IsValid(ch, p, expected) ==
  IF p = <<>> \/ p[1] \notin DOMAIN ch THEN FALSE
  ELSE ComputeSHA256(ch[p[1]]) = expected

\* The cache after `bytes` are written to allocatePath(c) (copyFile and
\* downloadFile replace a file that exists).
Written(ch, c, bytes) ==
  [x \in DOMAIN ch \cup {c} |-> IF x = c THEN bytes ELSE ch[x]]

\* A store that copies whether or not the destination exists.
StoreCopies_always(ch, c) == TRUE

\* if (!fs.existsSync(dest))
StoreCopies(ch, c) == c \notin DOMAIN ch

\* storePdf(checksum, sourcePath) as one step, no other call running between
\* its check and the end of its copy.
Stored(ch, c, bytes) == IF StoreCopies(ch, c) THEN Written(ch, c, bytes) ELSE ch

\* The bytes downloadFile writes for a file of the store: the PDF uploaded,
\* or other bytes (the file was replaced, or damaged on the way).
Downloads(file) == {BytesOf(file.ref), "junk"}

\* Before the first storePdf call returns.
NoStore == [n |-> 0, checksum |-> "", bytes |-> "", path |-> <<>>, copied |-> FALSE]

\* ------------------------------------------------------------ queue drain
\* The handler of entry u returns before its first remote call.
ReturnsEarly(u, its, atts, sets) ==
  IF u.type = "pdf"
  THEN \/ u.targetId \notin DOMAIN atts
       \/ atts[u.targetId].driveFileId # 0
       \/ atts[u.targetId].itemId \notin DOMAIN its
       \/ ~libRoot
       \/ (~u.localPath /\ GetPdfPath(cache, atts[u.targetId].checksum) = <<>>)
  ELSE IF u.type = "annotation"
  THEN \/ u.targetId \notin DOMAIN sets
       \/ sets[u.targetId].attachmentId \notin DOMAIN atts
       \/ atts[sets[u.targetId].attachmentId].itemId \notin DOMAIN its
       \/ ~libRoot
  ELSE TRUE

\* What the handler read from the local store before its first await.
Snapshot(u, sets) ==
  IF u.type = "annotation"
  THEN [annotations |-> sets[u.targetId].annotations,
        localVersion |-> sets[u.targetId].localVersion,
        driveFileId |-> sets[u.targetId].driveFileId,
        attachmentId |-> sets[u.targetId].attachmentId]
  ELSE NoSnap

RECURSIVE Dispatch(_, _, _, _, _)
\* The for loop of processUploadQueue up to the next await: entries whose
\* handler returns early are marked completed at once.
Dispatch(q, rest, its, atts, sets) ==
  IF rest = <<>> THEN [queue |-> q, rest |-> <<>>, snap |-> NoSnap, handed |-> <<>>]
  ELSE IF ReturnsEarly(Head(rest), its, atts, sets)
       THEN LET d == Dispatch([q EXCEPT ![Head(rest).id].status = "completed"],
                              Tail(rest), its, atts, sets)
            IN [d EXCEPT !.handed = <<Head(rest).id>> \o @]
       ELSE [queue |-> q, rest |-> rest, snap |-> Snapshot(Head(rest), sets),
             handed |-> <<Head(rest).id>>]

\* A selection that takes the failed entries up again.
PendingUploads_withFailed(q) ==
  LET pend == {e \in DOMAIN q : q[e].status \in {"pending", "failed"}}
  IN {[k \in 1..Len(o) |-> q[o[k]]] :
        o \in {p \in Orderings(pend) :
                 \A a, b \in 1..Len(p) :
                   a < b => ~StrGreater(q[p[a]].createdAt, q[p[b]].createdAt)}}

\* A selection without the ORDER BY: the pending rows in any order.
PendingUploads_unordered(q) ==
  LET pend == {e \in DOMAIN q : q[e].status = "pending"}
  IN {[k \in 1..Len(o) |-> q[o[k]]] : o \in Orderings(pend)}

\* SELECT * FROM upload_queue WHERE status = 'pending' ORDER BY createdAt
\* (rows with the same createdAt come in any order).
PendingUploads(q) ==
  LET pend == {e \in DOMAIN q : q[e].status = "pending"}
  IN {[k \in 1..Len(o) |-> q[o[k]]] :
        o \in {p \in Orderings(pend) :
                 \A a, b \in 1..Len(p) :
                   a < b => ~StrGreater(q[p[a]].createdAt, q[p[b]].createdAt)}}

\* A catch block that allows one attempt more: newRetry > maxRetries.
RetryFailed_oneMore(q, u) ==
  LET newRetry == u.retryCount + 1
  IN IF newRetry > u.maxRetries
     THEN [q EXCEPT ![u.id].status = "failed", ![u.id].errorMsg = TRUE,
                    ![u.id].retryCount = newRetry]
     ELSE [q EXCEPT ![u.id].retryCount = newRetry,
                    ![u.id].nextRetryAt = <<[at |-> IsoText(now), plus |-> Pow2(newRetry)]>>,
                    ![u.id].errorMsg = TRUE]

\* A catch block that computes the delay from the retry count it read.
RetryFailed_delayFromOldCount(q, u) ==
  LET newRetry == u.retryCount + 1
  IN IF newRetry >= u.maxRetries
     THEN [q EXCEPT ![u.id].status = "failed", ![u.id].errorMsg = TRUE,
                    ![u.id].retryCount = newRetry]
     ELSE [q EXCEPT ![u.id].retryCount = newRetry,
                    ![u.id].nextRetryAt = <<[at |-> IsoText(now), plus |-> Pow2(u.retryCount)]>>,
                    ![u.id].errorMsg = TRUE]

\* The catch block of processUploadQueue.
RetryFailed(q, u) ==
  LET newRetry == u.retryCount + 1
  IN IF newRetry >= u.maxRetries
     THEN [q EXCEPT ![u.id].status = "failed", ![u.id].errorMsg = TRUE,
                    ![u.id].retryCount = newRetry]
     ELSE [q EXCEPT ![u.id].retryCount = newRetry,
                    ![u.id].nextRetryAt = <<[at |-> IsoText(now), plus |-> Pow2(newRetry)]>>,
                    ![u.id].errorMsg = TRUE]

\* UPDATE upload_queue SET status = 'completed' WHERE id = ?
MarkCompleted(q, u) == [q EXCEPT ![u.id].status = "completed"]

\* A commit that keeps the old cursor when the pass counted an error.
CommitCursor_onlyWhenClean(res, log) ==
  /\ cursor' = IF res.errors = 0 THEN <<IsoText(now)>> ELSE cursor
  /\ pc' = "idle"
  /\ since' = EpochCursor
  /\ result' = res
  /\ passLog' = Append(log, "commit")

\* 5. Update sync timestamp, and return result (the local lastSync ends).
CommitCursor(res, log) ==
  /\ cursor' = <<IsoText(now)>>
  /\ pc' = "idle"
  /\ since' = EpochCursor
  /\ result' = res
  /\ passLog' = Append(log, "commit")

\* 4. Process upload queue: select, dispatch up to the first await, and
\* commit the cursor at once when nothing is awaited.
EnterDrain(res, log, its) ==
  \E pend \in PendingUploads(queue) :
    LET d == Dispatch(queue, pend, its, attachments, annSets)
    IN /\ queue' = d.queue
       /\ pendingList' = d.rest
       /\ hsnap' = d.snap
       /\ drainLog' = [selected |-> {pend[k].id : k \in DOMAIN pend}, handed |-> d.handed,
                       cancelled |-> {}]
       /\ IF d.rest = <<>>
          THEN CommitCursor(res, Append(log, "drain"))
          ELSE /\ pc' = "draining"
               /\ result' = res
               /\ passLog' = Append(log, "drain")
               /\ UNCHANGED <<cursor, since>>

\* 3. Push local changes: select, then await the first pushItem.
EnterPush(res, log, its) ==
  \E sel \in LocalChanges(its, since) :
    /\ pushList' = sel
    /\ IF sel = <<>>
       THEN EnterDrain(res, Append(log, "push"), its)
       ELSE /\ pc' = "pushing"
            /\ result' = res
            /\ passLog' = Append(log, "push")
            /\ UNCHANGED <<queue, pendingList, hsnap, cursor, since, drainLog>>

\* The rows of a getChanges response that carry a higher version than a local
\* row modified after the cursor: both sides changed.
BothChanged(resp, its, s) ==
  {[id |-> r.id, local |-> its[r.id].version, remote |-> r.row.version] :
     r \in {x \in Range(resp) : /\ x.id \in DOMAIN its
                                /\ x.row.version > its[x.id].version
                                /\ After(its[x.id].modifiedAt, s)}}

\* syncLoop() up to the await of getChanges.
SyncStart ==
  /\ pc = "idle"
  /\ pc' = "pulling"
  /\ since' = ReadCursor(cursor)
  /\ result' = ZeroResult
  /\ passLog' = <<>>
  /\ bothChanged' = {}
  /\ drainLog' = NoDrain
  /\ UNCHANGED <<now, items, attachments, annSets, queue, cursor, libRoot, remote,
                 drive, driveOnline, pushList, pendingList, hsnap, addCall, saveCall,
                 cache, budget, unpushed, pushFailed,
                 addError, openCall,
                 openError, storeCall, storeRet, retryCall, mergeCall, parseCall>>

\* getChanges answered: the pull loop, then the selection of local changes.
PullOk ==
  /\ pc = "pulling"
  /\ LET st == PullLoop(GetChanges(remote, since),
                        [items |-> items, pulled |-> 0, conflicts |-> 0], since)
     IN /\ items' = st.items
        /\ EnterPush([result EXCEPT !.pulled = st.pulled, !.conflicts = st.conflicts],
                     Append(passLog, "pull"), st.items)
  /\ bothChanged' = BothChanged(GetChanges(remote, since), items, since)
  /\ UNCHANGED <<now, attachments, annSets, libRoot, remote, drive, driveOnline,
                 addCall, saveCall, cache, budget, unpushed, pushFailed,
                 addError, openCall,
                 openError, storeCall, storeRet, retryCall, mergeCall, parseCall>>

\* A catch that gives the pass up: the error is counted and syncLoop returns.
PullFail_abortsPass ==
  /\ pc = "pulling"
  /\ pc' = "idle"
  /\ result' = [result EXCEPT !.errors = @ + 1]
  /\ passLog' = Append(passLog, "pullFailed")
  /\ bothChanged' = {}
  /\ UNCHANGED <<now, items, attachments, annSets, queue, cursor, libRoot, remote,
                 drive, driveOnline, since, pushList, pendingList, hsnap, addCall,
                 saveCall, cache, budget, unpushed, pushFailed,
                 drainLog, addError, openCall,
                 openError, storeCall, storeRet, retryCall, mergeCall, parseCall>>

\* getChanges threw: catch { result.errors++ }, then the selection.
PullFail ==
  /\ pc = "pulling"
  /\ EnterPush([result EXCEPT !.errors = @ + 1], Append(passLog, "pullFailed"), items)
  /\ bothChanged' = {}
  /\ UNCHANGED <<now, items, attachments, annSets, libRoot, remote, drive, driveOnline,
                 addCall, saveCall, cache, budget, unpushed, pushFailed,
                 addError, openCall,
                 openError, storeCall, storeRet, retryCall, mergeCall, parseCall>>

\* A statement of the local store throws while the k-th item of the response
\* is applied (the row's library is not in the libraries table, the disk is
\* full, ...): the items before it are applied, the catch counts the error,
\* and the selection of local changes follows.
PullItemFails(k) ==
  /\ pc = "pulling"
  /\ k \in DOMAIN GetChanges(remote, since)
  /\ LET st == PullLoop(SubSeq(GetChanges(remote, since), 1, k - 1),
                        [items |-> items, pulled |-> 0, conflicts |-> 0], since)
     IN /\ items' = st.items
        /\ EnterPush([result EXCEPT !.pulled = st.pulled, !.conflicts = st.conflicts,
                                    !.errors = @ + 1],
                     Append(passLog, "pullItemFailed"), st.items)
  /\ bothChanged' = BothChanged(SubSeq(GetChanges(remote, since), 1, k - 1), items, since)
  /\ UNCHANGED <<now, attachments, annSets, libRoot, remote, drive, driveOnline,
                 addCall, saveCall, cache, budget, unpushed, pushFailed,
                 addError, openCall,
                 openError, storeCall, storeRet, retryCall, mergeCall, parseCall>>

\* The result after pushItem answered `out`.
Counted(res, out) ==
  IF out = "ok" THEN [res EXCEPT !.pushed = @ + 1]
  ELSE IF out = "conflict" THEN [res EXCEPT !.conflicts = @ + 1]
  ELSE [res EXCEPT !.errors = @ + 1]

\* The await of pushItem(item) ends; the loop goes on to the next item.
PushStep ==
  /\ pc = "pushing"
  /\ pushList # <<>>
  /\ LET it == Head(pushList)
     IN \E out \in PushOutcomes(remote, it.id, it.row) :
          /\ remote' = IF out = "ok" THEN Extend(remote, it.id, it.row) ELSE remote
          /\ unpushed' = IF out = "ok" /\ items[it.id] = it.row
                         THEN unpushed \ {it.id} ELSE unpushed
          /\ pushFailed' = IF out = "ok" THEN pushFailed \ {it.id}
                           ELSE pushFailed \cup {it.id}
          /\ IF Len(pushList) = 1
             THEN /\ pushList' = <<>>
                  /\ EnterDrain(Counted(result, out), passLog, items)
             ELSE /\ pushList' = Tail(pushList)
                  /\ result' = Counted(result, out)
                  /\ UNCHANGED <<pc, queue, pendingList, hsnap, cursor, since, passLog,
                                 drainLog>>
  /\ UNCHANGED <<now, items, attachments, annSets, libRoot, drive, driveOnline,
                 addCall, saveCall, cache, budget, bothChanged,
                 addError, openCall,
                 openError, storeCall, storeRet, retryCall, mergeCall, parseCall>>

\* ------------------------------------------------------------ the file store
PdfFile(c) == [kind |-> "pdf", rev |-> 1, version |-> 0, annotations |-> <<>>, ref |-> c]

\* buildSidecar(attachmentId, annotations, version, user), as file content.
SidecarFile(rv, att, anns, v) ==
  [kind |-> "sidecar", rev |-> rv, version |-> v, annotations |-> anns, ref |-> att]

\* processAnnotationUpload after its awaits: updateFile or createFile, then
\* the UPDATE of annotation_sets.  sn is what the handler read before them.
AnnotationUploaded(u, sn, drv, sets) ==
  IF sn.driveFileId # 0
  THEN LET rv == drv[sn.driveFileId].rev + 1
       IN [drive |-> [drv EXCEPT ![sn.driveFileId] =
                         SidecarFile(rv, sn.attachmentId, sn.annotations, sn.localVersion)],
           sets |-> [sets EXCEPT ![u.targetId].driveRevision = rv,
                                 ![u.targetId].remoteVersion = sn.localVersion,
                                 ![u.targetId].isDirty = FALSE]]
  ELSE [drive |-> Append(drv, SidecarFile(1, sn.attachmentId, sn.annotations, sn.localVersion)),
        sets |-> [sets EXCEPT ![u.targetId].driveFileId = Len(drv) + 1,
                              ![u.targetId].driveRevision = 1,
                              ![u.targetId].remoteVersion = sn.localVersion,
                              ![u.targetId].isDirty = FALSE]]

\* processPdfUpload after its awaits: uploadResumable, then the UPDATE of
\* attachments.
PdfUploaded(u, drv, atts) ==
  [drive |-> Append(drv, PdfFile(atts[u.targetId].checksum)),
   atts |-> [atts EXCEPT ![u.targetId].driveFileId = Len(drv) + 1,
                         ![u.targetId].driveRevision = 1]]

\* A drain without the try/catch around each entry: the first failing
\* handler ends the loop.
DrainStep_stopsAtFailure ==
  /\ pc = "draining"
  /\ pendingList # <<>>
  /\ LET u == Head(pendingList)
         pdfUp == PdfUploaded(u, drive, attachments)
         annUp == AnnotationUploaded(u, hsnap, drive, annSets)
         atts1 == IF driveOnline /\ u.type = "pdf" THEN pdfUp.atts ELSE attachments
         sets1 == IF driveOnline /\ u.type = "annotation" THEN annUp.sets ELSE annSets
         drv1 == IF ~driveOnline THEN drive
                 ELSE IF u.type = "pdf" THEN pdfUp.drive ELSE annUp.drive
         q1 == IF driveOnline THEN MarkCompleted(queue, u) ELSE RetryFailed(queue, u)
         res1 == IF driveOnline THEN result ELSE [result EXCEPT !.errors = @ + 1]
         d == IF driveOnline
              THEN Dispatch(q1, Tail(pendingList), items, atts1, sets1)
              ELSE [queue |-> q1, rest |-> <<>>, snap |-> NoSnap, handed |-> <<>>]
     IN /\ attachments' = atts1
        /\ annSets' = sets1
        /\ drive' = drv1
        /\ queue' = d.queue
        /\ pendingList' = d.rest
        /\ hsnap' = d.snap
        /\ drainLog' = [drainLog EXCEPT !.handed = @ \o d.handed]
        /\ IF d.rest = <<>>
           THEN CommitCursor(res1, passLog)
           ELSE /\ result' = res1
                /\ UNCHANGED <<pc, cursor, since, passLog>>
  /\ UNCHANGED <<now, items, libRoot, remote, driveOnline, pushList, addCall,
                 saveCall, cache, budget, unpushed, pushFailed, bothChanged,
                 addError, openCall,
                 openError, storeCall, storeRet, retryCall, mergeCall, parseCall>>

\* The remote calls of the handler in flight end (they succeed when the file
\* store is reachable, throw when it is not); the loop goes on to the next
\* entry, and to the cursor after the last one.
DrainStep ==
  /\ pc = "draining"
  /\ pendingList # <<>>
  /\ LET u == Head(pendingList)
         pdfUp == PdfUploaded(u, drive, attachments)
         annUp == AnnotationUploaded(u, hsnap, drive, annSets)
         atts1 == IF driveOnline /\ u.type = "pdf" THEN pdfUp.atts ELSE attachments
         sets1 == IF driveOnline /\ u.type = "annotation" THEN annUp.sets ELSE annSets
         drv1 == IF ~driveOnline THEN drive
                 ELSE IF u.type = "pdf" THEN pdfUp.drive ELSE annUp.drive
         q1 == IF driveOnline THEN MarkCompleted(queue, u) ELSE RetryFailed(queue, u)
         res1 == IF driveOnline THEN result ELSE [result EXCEPT !.errors = @ + 1]
         d == Dispatch(q1, Tail(pendingList), items, atts1, sets1)
     IN /\ attachments' = atts1
        /\ annSets' = sets1
        /\ drive' = drv1
        /\ queue' = d.queue
        /\ pendingList' = d.rest
        /\ hsnap' = d.snap
        /\ drainLog' = [drainLog EXCEPT !.handed = @ \o d.handed]
        /\ IF d.rest = <<>>
           THEN CommitCursor(res1, passLog)
           ELSE /\ result' = res1
                /\ UNCHANGED <<pc, cursor, since, passLog>>
  /\ UNCHANGED <<now, items, libRoot, remote, driveOnline, pushList, addCall,
                 saveCall, cache, budget, unpushed, pushFailed, bothChanged,
                 addError, openCall,
                 openError, storeCall, storeRet, retryCall, mergeCall, parseCall>>

\* The caller cancels the remote call of the handler in flight (the
\* application shuts down): the call rejects, whether the file store is
\* reachable or not, and the catch block of processUploadQueue runs.
DrainCancelled ==
  /\ pc = "draining"
  /\ pendingList # <<>>
  /\ LET u == Head(pendingList)
         q1 == RetryFailed(queue, u)
         res1 == [result EXCEPT !.errors = @ + 1]
         d == Dispatch(q1, Tail(pendingList), items, attachments, annSets)
     IN /\ queue' = d.queue
        /\ pendingList' = d.rest
        /\ hsnap' = d.snap
        /\ drainLog' = [drainLog EXCEPT !.handed = @ \o d.handed,
                                        !.cancelled = @ \cup {u.id}]
        /\ IF d.rest = <<>>
           THEN CommitCursor(res1, passLog)
           ELSE /\ result' = res1
                /\ UNCHANGED <<pc, cursor, since, passLog>>
  /\ UNCHANGED <<now, items, attachments, annSets, drive, libRoot, remote, driveOnline,
                 pushList, addCall, saveCall, cache, budget, unpushed, pushFailed,
                 bothChanged, addError, openCall,
                 openError, storeCall, storeRet, retryCall, mergeCall, parseCall>>

\* ---------------------------------------------------------------- withRetry
\* BASE_DELAY_MS
BaseDelayMs == 1000

\* What the k-th call of fn can throw: an Error object of its own, or a value
\* that is not an Error (the string 'timeout', or a plain object).  message
\* is the Error's message, or String(value).
Throwables(k) ==
  {[isError |-> TRUE, message |-> "fail", obj |-> k],
   [isError |-> FALSE, message |-> "timeout", obj |-> 0],
   [isError |-> FALSE, message |-> "[object Object]", obj |-> k]}

\* err instanceof Error ? err : new Error(String(err))
AsError(err) ==
  IF err.isError THEN err ELSE [isError |-> TRUE, message |-> err.message, obj |-> -1]

\* A retry test that allows one attempt more.
RetriesLeft_oneMore(c) == c.attempt <= c.maxRetries

\* if (attempt < maxRetries), which is also when the for loop goes round again.
RetriesLeft(c) == c.attempt < c.maxRetries

\* withRetry(fn, maxRetries) up to the await of the first fn().
RetryStart(n) ==
  /\ retryCall = <<>>
  /\ retryCall' = <<[maxRetries |-> n, attempt |-> 0, calls |-> 1, thrown |-> <<>>,
                     lastError |-> <<>>, delay |-> 0, status |-> "calling", out |-> <<>>]>>
  /\ UNCHANGED <<now, items, attachments, annSets, queue, cursor, libRoot, remote,
                 drive, driveOnline, pc, since, pushList, pendingList, hsnap, result,
                 addCall, saveCall, cache, budget, unpushed, pushFailed, bothChanged,
                 passLog, drainLog, addError, openCall,
                 openError, storeCall, storeRet, mergeCall, parseCall>>

\* fn() resolves: return await fn()
FnReturns ==
  /\ retryCall # <<>>
  /\ retryCall[1].status = "calling"
  /\ retryCall' = <<[retryCall[1] EXCEPT !.status = "returned", !.out = <<"ok">>]>>
  /\ UNCHANGED <<now, items, attachments, annSets, queue, cursor, libRoot, remote,
                 drive, driveOnline, pc, since, pushList, pendingList, hsnap, result,
                 addCall, saveCall, cache, budget, unpushed, pushFailed, bothChanged,
                 passLog, drainLog, addError, openCall,
                 openError, storeCall, storeRet, mergeCall, parseCall>>

\* fn() rejects with err: the catch block, then the delay, or the end of the
\* loop and throw lastError.
FnThrows(err) ==
  /\ retryCall # <<>>
  /\ retryCall[1].status = "calling"
  /\ err \in Throwables(retryCall[1].calls)
  /\ LET c == [retryCall[1] EXCEPT !.thrown = Append(@, err),
                                   !.lastError = <<AsError(err)>>]
     IN retryCall' = IF RetriesLeft(c)
                     THEN <<[c EXCEPT !.status = "waiting",
                                      !.delay = BaseDelayMs * Pow2(c.attempt)]>>
                     ELSE <<[c EXCEPT !.status = "threw", !.out = c.lastError]>>
  /\ UNCHANGED <<now, items, attachments, annSets, queue, cursor, libRoot, remote,
                 drive, driveOnline, pc, since, pushList, pendingList, hsnap, result,
                 addCall, saveCall, cache, budget, unpushed, pushFailed, bothChanged,
                 passLog, drainLog, addError, openCall,
                 openError, storeCall, storeRet, mergeCall, parseCall>>

\* The delay ends: attempt++, and fn is called again.
DelayEnds ==
  /\ retryCall # <<>>
  /\ retryCall[1].status = "waiting"
  /\ retryCall' = <<[retryCall[1] EXCEPT !.attempt = @ + 1, !.calls = @ + 1,
                                         !.status = "calling"]>>
  /\ UNCHANGED <<now, items, attachments, annSets, queue, cursor, libRoot, remote,
                 drive, driveOnline, pc, since, pushList, pendingList, hsnap, result,
                 addCall, saveCall, cache, budget, unpushed, pushFailed, bothChanged,
                 passLog, drainLog, addError, openCall,
                 openError, storeCall, storeRet, mergeCall, parseCall>>

\* ------------------------------------------------------- annotation merge
\* A merge that keeps the local annotations only.
MergeRemote_localOnly(m, rem) == m

RECURSIVE MergeRemote_keepsExisting(_, _)
\* A merge that never replaces an entry of the map.
MergeRemote_keepsExisting(m, rem) ==
  IF rem = <<>> THEN m
  ELSE LET a == Head(rem)
           hit == {k \in 1..Len(m) : m[k].id = a.id}
           m1 == IF hit = {} THEN Append(m, a) ELSE m
       IN MergeRemote_keepsExisting(m1, Tail(rem))

RECURSIVE MergeRemote_remoteWinsTies(_, _)
\* A merge that replaces the entry also when the two modifiedAt are equal.
MergeRemote_remoteWinsTies(m, rem) ==
  IF rem = <<>> THEN m
  ELSE LET a == Head(rem)
           hit == {k \in 1..Len(m) : m[k].id = a.id}
           m1 == IF hit = {} THEN Append(m, a)
                 ELSE LET k == CHOOSE x \in hit : TRUE
                      IN IF a.modifiedAt >= m[k].modifiedAt THEN [m EXCEPT ![k] = a] ELSE m
       IN MergeRemote_remoteWinsTies(m1, Tail(rem))

RECURSIVE MergeRemote(_, _)
\* for (const ann of remote) { ... } over the id-keyed map m (a sequence in
\* insertion order).  modifiedAt stands for a timestamp text in the one
\* format all annotations carry, for which the string order is the order of
\* the instants.
MergeRemote(m, rem) ==
  IF rem = <<>> THEN m
  ELSE LET a == Head(rem)
           hit == {k \in 1..Len(m) : m[k].id = a.id}
           m1 == IF hit = {} THEN Append(m, a)
                 ELSE LET k == CHOOSE x \in hit : TRUE
                      IN IF a.modifiedAt > m[k].modifiedAt THEN [m EXCEPT ![k] = a] ELSE m
       IN MergeRemote(m1, Tail(rem))

\* A seeding that keeps every local annotation, repeated ids included.
MapOf_keepsDuplicates(m, loc) == m \o loc

RECURSIVE MapOf(_, _)
\* for (const ann of local) merged.set(ann.id, ann)
MapOf(m, loc) ==
  IF loc = <<>> THEN m
  ELSE LET a == Head(loc)
           hit == {k \in 1..Len(m) : m[k].id = a.id}
           m1 == IF hit = {} THEN Append(m, a)
                 ELSE [m EXCEPT ![CHOOSE x \in hit : TRUE] = a]
       IN MapOf(m1, Tail(loc))

\* a.rects?.[0]?.y1 ?? a.position?.y ?? 0
PositionY(a) ==
  IF a.rects # <<>> THEN a.rects[1].y1
  ELSE IF a.position # <<>> THEN a.position[1].y
  ELSE 0

\* A comparator that puts the lower annotation of a page first.
Before_lowestFirst(a, b) ==
  a.page < b.page \/ (a.page = b.page /\ PositionY(a) < PositionY(b))

\* The sort comparator: a sorts before b.
Before(a, b) == a.page < b.page \/ (a.page = b.page /\ PositionY(a) > PositionY(b))

RECURSIVE SortAnnotations(_)
\* Array.prototype.sort with the comparator (stable).
SortAnnotations(s) ==
  IF s = <<>> THEN <<>>
  ELSE LET k == CHOOSE x \in 1..Len(s) :
                  /\ \A j \in 1..Len(s) : ~Before(s[j], s[x])
                  /\ \A j \in 1..(x - 1) : Before(s[x], s[j])
           rest == [j \in 1..(Len(s) - 1) |-> IF j < k THEN s[j] ELSE s[j + 1]]
       IN <<s[k]>> \o SortAnnotations(rest)

MergeAnnotations(loc, rem) == SortAnnotations(MergeRemote(MapOf(<<>>, loc), rem))

Max(a, b) == IF a > b THEN a ELSE b

\* ------------------------------------------------------------ environment
Highlight ==
  [id |-> "h1", modifiedAt |-> 1, page |-> 1, rects |-> <<[y1 |-> 700]>>, position |-> <<>>]

Underline ==
  [id |-> "u1", modifiedAt |-> 2, page |-> 2, rects |-> <<[y1 |-> 100]>>, position |-> <<>>]

\* The note another user adds.
Note ==
  [id |-> "n1", modifiedAt |-> 1, page |-> 1, rects |-> <<>>, position |-> <<[y |-> 500]>>]

\* Where the annotation with identity i can be: a highlight of two lines
\* whose first rectangle is the lower one, or a note on page 2, for "a"; a
\* note, or an annotation without geometry, on page 1 for "b".
Places(i) ==
  IF i = "a"
  THEN {[page |-> 1, rects |-> <<[y1 |-> 100], [y1 |-> 700]>>, position |-> <<>>],
        [page |-> 2, rects |-> <<>>, position |-> <<[y |-> 500]>>]}
  ELSE {[page |-> 1, rects |-> <<>>, position |-> <<[y |-> 500]>>],
        [page |-> 1, rects |-> <<>>, position |-> <<>>]}

\* The annotations given to mergeAnnotations: two identities, each at two
\* modification times and two places.
MergeUniverse ==
  UNION {{[id |-> i, modifiedAt |-> t, page |-> g.page, rects |-> g.rects,
           position |-> g.position] : t \in 1..2, g \in Places(i)} : i \in {"a", "b"}}

\* The lists given to mergeAnnotations (Annotation[]): any annotations in any
\* order, an identity possibly more than once.
MergeInputs == UNION {[1..n -> MergeUniverse] : n \in 0..MaxListLen}

\* mergeAnnotations(local, remote) is called and returns (and, for
\* comparison, mergeAnnotations(remote, local)).
Merge(local, rem) ==
  /\ mergeCall = <<>>
  /\ mergeCall' = <<[local |-> local, remote |-> rem,
                     out |-> MergeAnnotations(local, rem),
                     swapped |-> MergeAnnotations(rem, local)]>>
  /\ UNCHANGED <<now, items, attachments, annSets, queue, cursor, libRoot, remote,
                 drive, driveOnline, pc, since, pushList, pendingList, hsnap, result,
                 addCall, saveCall, cache, budget, unpushed, pushFailed, bothChanged,
                 passLog, drainLog, addError, openCall,
                 openError, storeCall, storeRet, retryCall, parseCall>>

\* ------------------------------------------------------------ parseSidecar
\* The values a field of the parsed JSON can hold, as far as parseSidecar
\* looks at them: t is the JSON type, v the value as text.
SchemaVersions ==
  {[t |-> "number", v |-> "1"], [t |-> "number", v |-> "2"], [t |-> "number", v |-> "99"],
   [t |-> "string", v |-> "1"], [t |-> "null", v |-> ""], [t |-> "absent", v |-> ""]}

\* The values of the annotations field: arrays, and values that are none.
AnnotationsFields ==
  {[t |-> "array", list |-> l] : l \in {<<>>, <<Highlight>>, <<Highlight, Note>>}} \cup
  {[t |-> x, list |-> <<>>] : x \in {"string", "object", "absent"}}

\* The texts given to parseSidecar: JSON objects, the JSON text null, and a
\* text that is not JSON.
SidecarTexts ==
  {[json |-> "object", schemaVersion |-> sv, annotations |-> an, version |-> v] :
     sv \in SchemaVersions, an \in AnnotationsFields, v \in 1..3} \cup
  {[json |-> x, schemaVersion |-> [t |-> "absent", v |-> ""],
    annotations |-> [t |-> "absent", list |-> <<>>], version |-> 0] :
     x \in {"null", "invalid"}}

\* A comparison that converts before comparing: data.schemaVersion != 1
IsSchemaOne_loose(sv) == sv.t \in {"number", "string"} /\ sv.v = "1"

\* data.schemaVersion !== 1, negated
IsSchemaOne(sv) == sv.t = "number" /\ sv.v = "1"

\* new Error(message); SyntaxError and TypeError are thrown by JSON.parse and
\* by the read of a property of null.
Thrown(class, message) == <<[class |-> class, message |-> message]>>

\* parseSidecar(json): what it throws (<<>> when it returns) and what it
\* returns.
ParseSidecar(text) ==
  IF text.json = "invalid" THEN [threw |-> Thrown("SyntaxError", "JSON"), data |-> <<>>]
  ELSE IF text.json = "null" THEN [threw |-> Thrown("TypeError", "null"), data |-> <<>>]
  ELSE IF ~IsSchemaOne(text.schemaVersion)
  THEN [threw |-> Thrown("Error", "Unsupported annotation schema version"), data |-> <<>>]
  ELSE IF text.annotations.t # "array"
  THEN [threw |-> Thrown("Error", "Invalid sidecar: annotations must be an array"),
        data |-> <<>>]
  ELSE [threw |-> <<>>, data |-> <<text>>]

\* parseSidecar(json) is called and returns or throws.
Parse(text) ==
  /\ parseCall = <<>>
  /\ parseCall' = <<[json |-> text, out |-> ParseSidecar(text)]>>
  /\ UNCHANGED <<now, items, attachments, annSets, queue, cursor, libRoot, remote,
                 drive, driveOnline, pc, since, pushList, pendingList, hsnap, result,
                 addCall, saveCall, cache, budget, unpushed, pushFailed, bothChanged,
                 passLog, drainLog, addError, openCall,
                 openError, storeCall, storeRet, retryCall, mergeCall>>

\* Every list of distinct annotations a device can hold.
AnnotationLists ==
  UNION {{f \in [1..n -> {Highlight, Underline, Note}] :
            \A j, k \in 1..n : j # k => f[j] # f[k]} : n \in 1..3}

\* The annotation lists a caller saves over the stored list: the stored
\* annotations again, or with the user's next annotation (first the
\* highlight, then the underline) added; never an empty list.
SaveInputs(stored) ==
  LET have == {stored[k].id : k \in DOMAIN stored}
      next == IF "h1" \notin have THEN <<Highlight>>
              ELSE IF "u1" \notin have THEN <<Underline>> ELSE <<>>
  IN {stored, stored \o next} \ {<<>>}

\* The clock advances: to later the same day, or to the next day.
Tick ==
  /\ \/ /\ now.tick = 0
        /\ now' = [now EXCEPT !.tick = 1]
     \/ /\ now.day < MaxDay
        /\ now' = [day |-> now.day + 1, tick |-> 0]
  /\ UNCHANGED <<items, attachments, annSets, queue, cursor, libRoot, remote, drive,
                 driveOnline, pc, since, pushList, pendingList, hsnap, result, addCall,
                 saveCall, cache, budget, unpushed, pushFailed, bothChanged, passLog,
                 drainLog, addError, openCall,
                 openError, storeCall, storeRet, retryCall, mergeCall, parseCall>>

\* The file store becomes unreachable, or reachable again.
ToggleDrive ==
  /\ driveOnline' = ~driveOnline
  /\ UNCHANGED <<now, items, attachments, annSets, queue, cursor, libRoot, remote, drive,
                 pc, since, pushList, pendingList, hsnap, result, addCall, saveCall,
                 cache, budget, unpushed, pushFailed, bothChanged, passLog,
                 drainLog, addError, openCall,
                 openError, storeCall, storeRet, retryCall, mergeCall, parseCall>>

\* Another user changes item i at the remote authority.
RemoteEdit(i) ==
  /\ budget.redits > 0
  /\ i \in DOMAIN remote
  /\ remote' = [remote EXCEPT ![i] = [version |-> @.version + 1,
                                      modifiedAt |-> IsoText(now),
                                      title |-> "remote",
                                      deleted |-> @.deleted]]
  /\ budget' = [budget EXCEPT !.redits = @ - 1]
  /\ UNCHANGED <<now, items, attachments, annSets, queue, cursor, libRoot, drive,
                 driveOnline, pc, since, pushList, pendingList, hsnap, result, addCall,
                 saveCall, cache, unpushed, pushFailed, bothChanged, passLog,
                 drainLog, addError, openCall,
                 openError, storeCall, storeRet, retryCall, mergeCall, parseCall>>

\* Another user soft-deletes item i at the remote authority.
RemoteDelete(i) ==
  /\ budget.redits > 0
  /\ i \in DOMAIN remote
  /\ ~remote[i].deleted
  /\ remote' = [remote EXCEPT ![i] = [version |-> @.version + 1,
                                      modifiedAt |-> IsoText(now),
                                      title |-> @.title,
                                      deleted |-> TRUE]]
  /\ budget' = [budget EXCEPT !.redits = @ - 1]
  /\ UNCHANGED <<now, items, attachments, annSets, queue, cursor, libRoot, drive,
                 driveOnline, pc, since, pushList, pendingList, hsnap, result, addCall,
                 saveCall, cache, unpushed, pushFailed, bothChanged, passLog,
                 drainLog, addError, openCall,
                 openError, storeCall, storeRet, retryCall, mergeCall, parseCall>>

\* Another user uploads the sidecar f: with the own note alone (having seen
\* the current revision), or merged with what the file held.
OtherUserSaves(f) ==
  /\ budget.sidecars > 0
  /\ f \in DOMAIN drive
  /\ drive[f].kind = "sidecar"
  /\ \E anns \in {<<Note>>, MergeAnnotations(<<Note>>, drive[f].annotations)} :
       drive' = [drive EXCEPT ![f] = SidecarFile(@.rev + 1, @.ref, anns, @.version + 1)]
  /\ budget' = [budget EXCEPT !.sidecars = @ - 1]
  /\ UNCHANGED <<now, items, attachments, annSets, queue, cursor, libRoot, remote,
                 driveOnline, pc, since, pushList, pendingList, hsnap, result, addCall,
                 saveCall, cache, unpushed, pushFailed, bothChanged, passLog, drainLog,
                 addError, openCall,
                 openError, storeCall, storeRet, retryCall, mergeCall, parseCall>>

\* ---------------------------------------------------------- LibraryService
\* UPDATE items SET title = ?, ..., version = version + 1,
\*   modifiedAt = datetime('now') WHERE id = ?
UpdatedRow(row) ==
  [version |-> row.version + 1, modifiedAt |-> SqlText(now), title |-> "local",
   deleted |-> row.deleted]

\* updateItem(id, data)
UpdateItem(i) ==
  /\ budget.edits > 0
  /\ i \in DOMAIN items
  /\ items' = [items EXCEPT ![i] = UpdatedRow(@)]
  /\ unpushed' = unpushed \cup {i}
  /\ budget' = [budget EXCEPT !.edits = @ - 1]
  /\ UNCHANGED <<now, attachments, annSets, queue, cursor, libRoot, remote, drive,
                 driveOnline, pc, since, pushList, pendingList, hsnap, result, addCall,
                 saveCall, cache, pushFailed, bothChanged, passLog,
                 drainLog, addError, openCall,
                 openError, storeCall, storeRet, retryCall, mergeCall, parseCall>>

\* A soft delete that leaves the version alone.
DeletedRow_keepsVersion(row) ==
  [version |-> row.version, modifiedAt |-> SqlText(now), title |-> row.title,
   deleted |-> TRUE]

\* UPDATE items SET deleted = 1, modifiedAt = datetime('now'),
\*   version = version + 1 WHERE id = ?
DeletedRow(row) ==
  [version |-> row.version + 1, modifiedAt |-> SqlText(now), title |-> row.title,
   deleted |-> TRUE]

\* deleteItem(id)
DeleteItem(i) ==
  /\ budget.deletes > 0
  /\ i \in DOMAIN items
  /\ items' = [items EXCEPT ![i] = DeletedRow(@)]
  /\ unpushed' = unpushed \cup {i}
  /\ budget' = [budget EXCEPT !.deletes = @ - 1]
  /\ UNCHANGED <<now, attachments, annSets, queue, cursor, libRoot, remote, drive,
                 driveOnline, pc, since, pushList, pendingList, hsnap, result, addCall,
                 saveCall, cache, pushFailed, bothChanged, passLog,
                 drainLog, addError, openCall,
                 openError, storeCall, storeRet, retryCall, mergeCall, parseCall>>

\* INSERT INTO items (...) of createItem and addPdfToGroup: version and
\* deleted take their defaults, modifiedAt is datetime('now').
NewItemRow == [version |-> 1, modifiedAt |-> SqlText(now), title |-> "local", deleted |-> FALSE]

\* The ids (uuids) of the items this device has created so far.
LocalIds == DOMAIN items \ RemoteItemIds

\* createItem(libraryId, data)
CreateItem ==
  /\ budget.creates > 0
  /\ LET id == AddedItemId(Cardinality(LocalIds) + 1)
     IN /\ items' = Extend(items, id, NewItemRow)
        /\ unpushed' = unpushed \cup {id}
  /\ budget' = [budget EXCEPT !.creates = @ - 1]
  /\ UNCHANGED <<now, attachments, annSets, queue, cursor, libRoot, remote, drive,
                 driveOnline, pc, since, pushList, pendingList, hsnap, result, addCall,
                 saveCall, cache, pushFailed, bothChanged, passLog,
                 drainLog, addError, openCall,
                 openError, storeCall, storeRet, retryCall, mergeCall, parseCall>>

\* INSERT INTO attachments (...): fid 0 when the upload failed.
NewAttachmentRow(item, c, fid) ==
  [itemId |-> item, checksum |-> c, driveFileId |-> fid,
   driveRevision |-> IF fid = 0 THEN 0 ELSE 1]

\* INSERT INTO annotation_sets (id, attachmentId, createdBy)
NewAnnotationSetRow(att) ==
  [attachmentId |-> att, annotations |-> <<>>, driveFileId |-> 0, driveRevision |-> 0,
   localVersion |-> 1, remoteVersion |-> 0, isDirty |-> FALSE]

\* An insert that counts the failed immediate attempt as the first retry.
NewQueueRow_countsFirstTry(id, type, target, hasPath) ==
  [id |-> id, type |-> type, targetId |-> target, localPath |-> hasPath,
   status |-> "pending", retryCount |-> 1, maxRetries |-> DefaultMaxRetries,
   errorMsg |-> FALSE, createdAt |-> SqlText(now), nextRetryAt |-> <<>>]

\* INSERT INTO upload_queue (id, type, targetId, [localPath,] status)
NewQueueRow(id, type, target, hasPath) ==
  [id |-> id, type |-> type, targetId |-> target, localPath |-> hasPath,
   status |-> "pending", retryCount |-> 0, maxRetries |-> DefaultMaxRetries,
   errorMsg |-> FALSE, createdAt |-> SqlText(now), nextRetryAt |-> <<>>]

\* A duplicate check that sees only the attachments already uploaded.
Duplicate_uploadedOnly(c) ==
  \E a \in DOMAIN attachments :
    /\ attachments[a].checksum = c
    /\ attachments[a].driveFileId # 0
    /\ attachments[a].itemId \in DOMAIN items
    /\ ~items[attachments[a].itemId].deleted

\* The duplicate check of addPdfToGroup: an attachment with this checksum
\* whose item is not deleted.
Duplicate(c) ==
  \E a \in DOMAIN attachments :
    /\ attachments[a].checksum = c
    /\ attachments[a].itemId \in DOMAIN items
    /\ ~items[attachments[a].itemId].deleted

\* The files a caller adds: a file given to addPdfToGroup before, or a new
\* one, whose checksum is the first one not seen yet.
FilesToAdd ==
  LET seen == {attachments[a].checksum : a \in DOMAIN attachments}
                \cup {addCall[n].checksum : n \in DOMAIN addCall}
      fresh == Checksums \ seen
  IN seen \cup {c \in fresh : \A d \in fresh : c = "c1" \/ d # "c1"}

\* addPdfToGroup up to the await of the file store (steps 1 to 5).
AddPdfStart(c) ==
  /\ budget.calls > 0
  /\ c \in FilesToAdd
  /\ ~Duplicate(c)
  /\ addCall' = Append(addCall, [checksum |-> c])
  /\ addError' = [file |-> c, threw |-> "none"]
  /\ budget' = [budget EXCEPT !.calls = @ - 1]
  /\ UNCHANGED <<now, items, attachments, annSets, queue, cursor, libRoot, remote, drive,
                 driveOnline, pc, since, pushList, pendingList, hsnap, result, saveCall,
                 cache, unpushed, pushFailed, bothChanged, passLog,
                 drainLog, openCall,
                 openError, storeCall, storeRet, retryCall, mergeCall, parseCall>>

\* addPdfToGroup for a file the library holds already: steps 1 to 4, ending
\* with throw new DuplicateError.
AddPdfDuplicate(c) ==
  /\ budget.calls > 0
  /\ c \in FilesToAdd
  /\ Duplicate(c)
  /\ addError' = [file |-> c, threw |-> "Duplicate"]
  /\ budget' = [budget EXCEPT !.calls = @ - 1]
  /\ UNCHANGED <<now, items, attachments, annSets, queue, cursor, libRoot, remote, drive,
                 driveOnline, pc, since, pushList, pendingList, hsnap, result, addCall,
                 saveCall, cache, unpushed, pushFailed, bothChanged, passLog, drainLog,
                 openCall,
                 openError, storeCall, storeRet, retryCall, mergeCall, parseCall>>

\* A catch block without the transaction, stopped by a crash after the
\* second INSERT.
AddPdfQueued_stopsAfterAttachment(id, k, c) ==
  /\ items' = Extend(items, id, NewItemRow)
  /\ attachments' = Extend(attachments, k, NewAttachmentRow(id, c, 0))
  /\ UNCHANGED <<annSets, queue, drive>>

\* The catch block of addPdfToGroup: one transaction, then storePdf.
AddPdfQueued(id, k, c) ==
  /\ items' = Extend(items, id, NewItemRow)
  /\ attachments' = Extend(attachments, k, NewAttachmentRow(id, c, 0))
  /\ annSets' = Extend(annSets, k, NewAnnotationSetRow(k))
  /\ queue' = Extend(queue, Cardinality(DOMAIN queue) + 1,
                     NewQueueRow(Cardinality(DOMAIN queue) + 1, "pdf", k, TRUE))
  /\ UNCHANGED drive

\* Step 6 of addPdfToGroup: the upload succeeded.
AddPdfUploaded(id, k, c) ==
  /\ drive' = Append(drive, PdfFile(c))
  /\ items' = Extend(items, id, NewItemRow)
  /\ attachments' = Extend(attachments, k, NewAttachmentRow(id, c, Len(drive) + 1))
  /\ annSets' = Extend(annSets, k, NewAnnotationSetRow(k))
  /\ UNCHANGED queue

\* The await of ensureFolder / uploadResumable ends: they throw when the file
\* store is unreachable or the library has no driveRootId.
AddPdfDone(n) ==
  /\ n \in DOMAIN addCall
  /\ LET c == addCall[n].checksum
         k == Cardinality(DOMAIN attachments) + 1
         id == AddedItemId(Cardinality(LocalIds) + 1)
     IN /\ IF driveOnline /\ libRoot THEN AddPdfUploaded(id, k, c) ELSE AddPdfQueued(id, k, c)
        /\ cache' = Stored(cache, c, BytesOf(c))
        /\ unpushed' = unpushed \cup {id}
  /\ addCall' = RemoveAt(addCall, n)
  /\ UNCHANGED <<now, cursor, libRoot, remote, driveOnline, pc, since, pushList,
                 pendingList, hsnap, result, saveCall, budget, pushFailed, bothChanged, passLog,
                 drainLog, addError, openCall,
                 openError, storeCall, storeRet, retryCall, mergeCall, parseCall>>

\* The process dies while addPdfToGroup call n runs, and every other call in
\* flight with it.  Either the transaction of call n had committed, storePdf
\* not having copied the file yet, or nothing of the call is in the local
\* store (the upload may have reached the file store all the same).
Crash(n) ==
  /\ n \in DOMAIN addCall
  /\ pc = "idle" /\ saveCall = <<>> /\ openCall = <<>> /\ storeCall = <<>>
  /\ LET c == addCall[n].checksum
         k == Cardinality(DOMAIN attachments) + 1
         id == AddedItemId(Cardinality(LocalIds) + 1)
     IN \/ /\ IF driveOnline /\ libRoot THEN AddPdfUploaded(id, k, c)
                                          ELSE AddPdfQueued(id, k, c)
           /\ unpushed' = unpushed \cup {id}
        \/ /\ drive' \in {drive} \cup
                         (IF driveOnline /\ libRoot THEN {Append(drive, PdfFile(c))} ELSE {})
           /\ UNCHANGED <<items, attachments, annSets, queue, unpushed>>
  /\ addCall' = <<>>
  /\ UNCHANGED <<now, cursor, libRoot, remote, driveOnline, pc, since, pushList,
                 pendingList, hsnap, result, saveCall, cache, budget, pushFailed,
                 bothChanged, passLog, drainLog, addError, openCall,
                 openError, storeCall, storeRet, retryCall, mergeCall, parseCall>>

\* saveAnnotations up to its first await: the local save, then either the
\* return for a library without Drive or the call of the file store.
SaveStart(a, anns) ==
  /\ budget.calls > 0
  /\ saveCall = <<>>
  /\ \E st \in DOMAIN annSets :
       /\ annSets[st].attachmentId = a
       /\ anns \in SaveInputs(annSets[st].annotations)
       /\ annSets' = [annSets EXCEPT ![st].annotations = anns,
                                     ![st].localVersion = @ + 1,
                                     ![st].isDirty = TRUE]
       /\ saveCall' = IF libRoot
                      THEN <<[set |-> st, attachmentId |-> a, annotations |-> anns,
                              newVersion |-> annSets[st].localVersion + 1,
                              driveFileId |-> annSets[st].driveFileId,
                              driveRevision |-> annSets[st].driveRevision]>>
                      ELSE <<>>
  /\ budget' = [budget EXCEPT !.calls = @ - 1]
  /\ UNCHANGED <<now, items, attachments, queue, cursor, libRoot, remote, drive,
                 driveOnline, pc, since, pushList, pendingList, hsnap, result, addCall,
                 cache, unpushed, pushFailed, bothChanged, passLog,
                 drainLog, addError, openCall,
                 openError, storeCall, storeRet, retryCall, mergeCall, parseCall>>

\* The catch block of saveAnnotations.
SaveQueued(c) ==
  /\ queue' = Extend(queue, Cardinality(DOMAIN queue) + 1,
                     NewQueueRow(Cardinality(DOMAIN queue) + 1, "annotation", c.set, FALSE))
  /\ UNCHANGED <<annSets, drive>>

\* The try block of saveAnnotations after ensureFolder: the conflict check,
\* updateFile or createFile, and the UPDATE of annotation_sets.
SaveUploaded(c) ==
  IF c.driveFileId # 0
  THEN LET f == drive[c.driveFileId]
           conflict == f.rev # c.driveRevision
           anns == IF conflict THEN MergeAnnotations(c.annotations, f.annotations)
                   ELSE c.annotations
           v == IF conflict THEN Max(c.newVersion, f.version) + 1 ELSE c.newVersion
       IN /\ drive' = [drive EXCEPT ![c.driveFileId] =
                         SidecarFile(f.rev + 1, c.attachmentId, anns, v)]
          /\ annSets' = [annSets EXCEPT ![c.set].driveRevision = f.rev + 1,
                                        ![c.set].remoteVersion = v,
                                        ![c.set].isDirty = FALSE,
                                        ![c.set].localVersion = v]
          /\ UNCHANGED queue
  ELSE /\ drive' = Append(drive, SidecarFile(1, c.attachmentId, c.annotations, c.newVersion))
       /\ annSets' = [annSets EXCEPT ![c.set].driveFileId = Len(drive) + 1,
                                     ![c.set].driveRevision = 1,
                                     ![c.set].remoteVersion = c.newVersion,
                                     ![c.set].isDirty = FALSE]
       /\ UNCHANGED queue

\* The awaits of saveAnnotations end: the remote calls succeed when the file
\* store is reachable and throw when it is not.
SaveDone ==
  /\ saveCall # <<>>
  /\ IF driveOnline THEN SaveUploaded(saveCall[1]) ELSE SaveQueued(saveCall[1])
  /\ saveCall' = <<>>
  /\ UNCHANGED <<now, items, attachments, cursor, libRoot, remote, driveOnline, pc, since,
                 pushList, pendingList, hsnap, result, addCall, cache, budget, unpushed,
                 pushFailed, bothChanged, passLog,
                 drainLog, addError, openCall,
                 openError, storeCall, storeRet, retryCall, mergeCall, parseCall>>

\* 2. Load annotations, and step 3 up to the await of getFileMetadata; a set
\* without a sidecar is returned as it is, with no remote call.
LoadAnnotations(a) ==
  \E st \in DOMAIN annSets :
    /\ annSets[st].attachmentId = a
    /\ openCall' = IF annSets[st].driveFileId # 0
                   THEN <<[set |-> st, annotations |-> annSets[st].annotations,
                           driveFileId |-> annSets[st].driveFileId,
                           driveRevision |-> annSets[st].driveRevision]>>
                   ELSE <<>>

\* openPdfForAnnotate up to the await of getFileMetadata, for an attachment
\* whose PDF is in the local cache and valid.
OpenStart(a) ==
  /\ budget.opens > 0
  /\ openCall = <<>>
  /\ a \in DOMAIN attachments
  /\ IsValid(cache, GetPdfPath(cache, attachments[a].checksum), attachments[a].checksum)
  /\ LoadAnnotations(a)
  /\ openError' = "none"
  /\ budget' = [budget EXCEPT !.opens = @ - 1]
  /\ UNCHANGED <<now, items, attachments, annSets, queue, cursor, libRoot, remote, drive,
                 driveOnline, pc, since, pushList, pendingList, hsnap, result, addCall,
                 saveCall, cache, unpushed, pushFailed, bothChanged, passLog, drainLog,
                 addError, storeCall, storeRet, retryCall, mergeCall, parseCall>>

\* openPdfForAnnotate for an attachment whose PDF is not in the cache, or is
\* there with another checksum: NotFoundError without a file on the store,
\* else up to the await of downloadFile.
OpenUncached(a) ==
  /\ budget.opens > 0
  /\ openCall = <<>>
  /\ a \in DOMAIN attachments
  /\ ~IsValid(cache, GetPdfPath(cache, attachments[a].checksum), attachments[a].checksum)
  /\ IF attachments[a].driveFileId = 0
     THEN openCall' = <<>> /\ openError' = "NotFound"
     ELSE openCall' = <<[download |-> a]>> /\ openError' = "none"
  /\ budget' = [budget EXCEPT !.opens = @ - 1]
  /\ UNCHANGED <<now, items, attachments, annSets, queue, cursor, libRoot, remote, drive,
                 driveOnline, pc, since, pushList, pendingList, hsnap, result, addCall,
                 saveCall, cache, unpushed, pushFailed, bothChanged, passLog, drainLog,
                 addError, storeCall, storeRet, retryCall, mergeCall, parseCall>>

\* The await of downloadFile ends: it throws when the file store is
\* unreachable; else the file is at allocatePath(checksum), its hash is
\* compared, and the call throws IntegrityError or goes on to step 2.
OpenDownloaded ==
  /\ openCall # <<>>
  /\ "download" \in DOMAIN openCall[1]
  /\ LET a == openCall[1].download
         c == attachments[a].checksum
     IN IF ~driveOnline
        THEN openCall' = <<>> /\ openError' = "Download" /\ UNCHANGED cache
        ELSE \E bytes \in Downloads(drive[attachments[a].driveFileId]) :
               /\ cache' = Written(cache, c, bytes)
               /\ IF ComputeSHA256(bytes) # c
                  THEN openCall' = <<>> /\ openError' = "Integrity"
                  ELSE LoadAnnotations(a) /\ openError' = "none"
  /\ UNCHANGED <<now, items, attachments, annSets, queue, cursor, libRoot, remote, drive,
                 driveOnline, pc, since, pushList, pendingList, hsnap, result, addCall,
                 saveCall, budget, unpushed, pushFailed, bothChanged, passLog, drainLog,
                 addError, storeCall, storeRet, retryCall, mergeCall, parseCall>>

\* storePdf(checksum, sourcePath) up to the await of copyFile, or to its
\* return when a file exists at the destination.
StoreStart(c, bytes) ==
  /\ budget.stores > 0
  /\ IF StoreCopies(cache, c)
     THEN /\ storeCall' = Append(storeCall, [checksum |-> c, bytes |-> bytes])
          /\ UNCHANGED storeRet
     ELSE /\ storeRet' = [n |-> storeRet.n + 1, checksum |-> c, bytes |-> bytes,
                          path |-> AllocatePath(c), copied |-> FALSE]
          /\ UNCHANGED storeCall
  /\ budget' = [budget EXCEPT !.stores = @ - 1]
  /\ UNCHANGED <<now, items, attachments, annSets, queue, cursor, libRoot, remote, drive,
                 driveOnline, pc, since, pushList, pendingList, hsnap, result, addCall,
                 saveCall, cache, unpushed, pushFailed, bothChanged, passLog, drainLog,
                 addError, openCall, openError, retryCall, mergeCall, parseCall>>

\* The await of copyFile ends and storePdf returns dest.
StoreDone(n) ==
  /\ n \in DOMAIN storeCall
  /\ cache' = Written(cache, storeCall[n].checksum, storeCall[n].bytes)
  /\ storeRet' = [n |-> storeRet.n + 1, checksum |-> storeCall[n].checksum,
                  bytes |-> storeCall[n].bytes,
                  path |-> AllocatePath(storeCall[n].checksum), copied |-> TRUE]
  /\ storeCall' = RemoveAt(storeCall, n)
  /\ UNCHANGED <<now, items, attachments, annSets, queue, cursor, libRoot, remote, drive,
                 driveOnline, pc, since, pushList, pendingList, hsnap, result, addCall,
                 saveCall, budget, unpushed, pushFailed, bothChanged, passLog, drainLog,
                 addError, openCall, openError, retryCall, mergeCall, parseCall>>

\* The bytes of the cached file of checksum c are overwritten from outside
\* the program.
Tamper(c) ==
  /\ budget.tampers > 0
  /\ c \in DOMAIN cache
  /\ cache' = Written(cache, c, "junk")
  /\ budget' = [budget EXCEPT !.tampers = @ - 1]
  /\ UNCHANGED <<now, items, attachments, annSets, queue, cursor, libRoot, remote, drive,
                 driveOnline, pc, since, pushList, pendingList, hsnap, result, addCall,
                 saveCall, unpushed, pushFailed, bothChanged, passLog, drainLog,
                 addError, openCall, openError, storeCall, storeRet, retryCall, mergeCall, parseCall>>

\* 3. Check for newer remote annotations, after the awaits: the merge and
\* the UPDATE when the head revision differs; nothing when the file store is
\* unreachable (catch) or the revision is the stored one.
OpenDone ==
  /\ openCall # <<>>
  /\ "set" \in DOMAIN openCall[1]
  /\ LET c == openCall[1]
         f == drive[c.driveFileId]
     IN annSets' = IF driveOnline /\ f.rev # c.driveRevision
                   THEN [annSets EXCEPT
                           ![c.set].annotations = MergeAnnotations(c.annotations, f.annotations),
                           ![c.set].driveRevision = f.rev,
                           ![c.set].remoteVersion = f.version]
                   ELSE annSets
  /\ openCall' = <<>>
  /\ UNCHANGED <<now, items, attachments, queue, cursor, libRoot, remote, drive,
                 driveOnline, pc, since, pushList, pendingList, hsnap, result, addCall,
                 saveCall, cache, budget, unpushed, pushFailed, bothChanged, passLog,
                 drainLog, addError, openError, storeCall, storeRet, retryCall, mergeCall, parseCall>>

\* ---------------------------------------------------------- specification
\* The items other users created at the remote authority.
OthersItems ==
  [i \in RemoteItemIds |->
     [version |-> 1, modifiedAt |-> IsoText([day |-> 1, tick |-> 0]),
      title |-> "base", deleted |-> FALSE]]

\* A fresh installation: an empty local store and no cursor.
Fresh ==
  /\ now = [day |-> 1, tick |-> 0]
  /\ items = <<>>
  /\ attachments = <<>>
  /\ annSets = <<>>
  /\ queue = <<>>
  /\ cursor = <<>>
  /\ libRoot \in BOOLEAN
  /\ drive = <<>>
  /\ driveOnline \in BOOLEAN
  /\ pc = "idle"
  /\ since = EpochCursor
  /\ pushList = <<>>
  /\ pendingList = <<>>
  /\ hsnap = NoSnap
  /\ result = ZeroResult
  /\ addCall = <<>>
  /\ saveCall = <<>>
  /\ cache = <<>>
  /\ unpushed = {}
  /\ pushFailed = {}
  /\ bothChanged = {}
  /\ passLog = <<>>
  /\ drainLog = NoDrain
  /\ addError = NoAddError
  /\ openCall = <<>>
  /\ openError = "none"
  /\ storeCall = <<>>
  /\ storeRet = NoStore
  /\ retryCall = <<>>
  /\ mergeCall = <<>>
  /\ parseCall = <<>>

Init ==
  /\ Fresh
  /\ remote = OthersItems
  /\ budget = [creates |-> MaxCreates, edits |-> MaxLocalEdits,
               redits |-> MaxRemoteEdits, calls |-> 0, sidecars |-> 0, opens |-> 0,
               deletes |-> 0,
               stores |-> 0, tampers |-> 0]

\* Item synchronisation: local edits, other users' edits, sync passes.
Next ==
  \/ Tick
  \/ \E i \in RemoteItemIds : RemoteEdit(i)
  \/ CreateItem
  \/ \E i \in DOMAIN items : UpdateItem(i)
  \/ SyncStart
  \/ PullOk
  \/ PullFail
  \/ PushStep

Spec == Init /\ [][Next]_vars

InitItems ==
  /\ Fresh
  /\ remote = OthersItems
  /\ budget = [creates |-> MaxCreates, edits |-> MaxLocalEdits,
               redits |-> MaxRemoteEditsOfItems,
               calls |-> 0, sidecars |-> 0, opens |-> 0, deletes |-> MaxDeletes,
               stores |-> 0, tampers |-> 0]

\* The local mutations of items (create, update, soft delete) between sync
\* passes, with one edit by another user.
NextItems ==
  \/ Tick
  \/ \E i \in RemoteItemIds : RemoteEdit(i)
  \/ CreateItem
  \/ \E i \in DOMAIN items : UpdateItem(i)
  \/ \E i \in DOMAIN items : DeleteItem(i)
  \/ SyncStart
  \/ PullOk
  \/ PullFail
  \/ PushStep

SpecItems == InitItems /\ [][NextItems]_vars

InitPass ==
  /\ Fresh
  /\ remote = OthersItems
  /\ budget = [creates |-> MaxCreates, edits |-> 0, redits |-> 0, calls |-> 0,
               sidecars |-> 0, opens |-> 0, deletes |-> 0,
               stores |-> 0, tampers |-> 0]

\* Sync passes over time, with items created on this device.
NextPass ==
  \/ Tick
  \/ CreateItem
  \/ SyncStart
  \/ PullOk
  \/ PullFail
  \/ PushStep

SpecPass == InitPass /\ [][NextPass]_vars

\* The upload queue is exercised in a library no other user has written to.
InitQueue ==
  /\ Fresh
  /\ remote = <<>>
  /\ budget = [creates |-> 0, edits |-> 0, redits |-> 0, calls |-> MaxCalls,
               sidecars |-> 0, opens |-> 0, deletes |-> 0,
               stores |-> 0, tampers |-> 0]

\* The upload queue: the use cases that feed it, an unreliable file store,
\* sync passes.
NextQueue ==
  \/ ToggleDrive
  \/ \E c \in Checksums : AddPdfStart(c)
  \/ \E n \in DOMAIN addCall : AddPdfDone(n)
  \/ \E a \in DOMAIN attachments, anns \in AnnotationLists : SaveStart(a, anns)
  \/ SaveDone
  \/ SyncStart
  \/ PullOk
  \/ PullFail
  \/ PushStep
  \/ DrainStep

SpecQueue == InitQueue /\ [][NextQueue]_vars

\* Sync passes keep running (syncLoop is called periodically) and every
\* awaited call of a pass is answered.
PassFairness ==
  /\ WF_vars(SyncStart)
  /\ WF_vars(PullOk \/ PullFail)
  /\ WF_vars(PushStep)
  /\ WF_vars(DrainStep)

SpecQueueFair == InitQueue /\ [][NextQueue]_vars /\ PassFairness

\* A group library with its folder on the file store, after one
\* addPdfToGroup call that uploaded its PDF and committed its rows; ch is
\* the PDF cache.
PdfAdded(ch) ==
  /\ now = [day |-> 1, tick |-> 0]
  /\ items = Extend(<<>>, AddedItemId(1), NewItemRow)
  /\ attachments = Extend(<<>>, 1, NewAttachmentRow(AddedItemId(1), "c1", 1))
  /\ annSets = Extend(<<>>, 1, NewAnnotationSetRow(1))
  /\ queue = <<>>
  /\ cursor = <<>>
  /\ libRoot = TRUE
  /\ remote = <<>>
  /\ drive = <<PdfFile("c1")>>
  /\ driveOnline \in BOOLEAN
  /\ pc = "idle"
  /\ since = EpochCursor
  /\ pushList = <<>>
  /\ pendingList = <<>>
  /\ hsnap = NoSnap
  /\ result = ZeroResult
  /\ addCall = <<>>
  /\ saveCall = <<>>
  /\ cache = ch
  /\ unpushed = {AddedItemId(1)}
  /\ pushFailed = {}
  /\ bothChanged = {}
  /\ passLog = <<>>
  /\ drainLog = NoDrain
  /\ addError = NoAddError
  /\ openCall = <<>>
  /\ openError = "none"
  /\ storeCall = <<>>
  /\ storeRet = NoStore
  /\ retryCall = <<>>
  /\ mergeCall = <<>>
  /\ parseCall = <<>>

\* The state after one addPdfToGroup call that returned.
OnePdfAdded == PdfAdded(Stored(<<>>, "c1", BytesOf("c1")))

InitSave ==
  /\ OnePdfAdded
  /\ budget = [creates |-> 0, edits |-> 0, redits |-> 0, calls |-> MaxCalls,
               sidecars |-> 0, opens |-> 0, deletes |-> 0,
               stores |-> 0, tampers |-> 0]

\* Saves of this device racing with its sync passes.
NextSave ==
  \/ ToggleDrive
  \/ \E a \in DOMAIN attachments, anns \in AnnotationLists : SaveStart(a, anns)
  \/ SaveDone
  \/ SyncStart
  \/ PullOk
  \/ PullFail
  \/ PushStep
  \/ DrainStep

SpecSave == InitSave /\ [][NextSave]_vars

InitAnnot ==
  /\ OnePdfAdded
  /\ budget = [creates |-> 0, edits |-> 0, redits |-> 0, calls |-> MaxCalls,
               sidecars |-> MaxSidecarEdits, opens |-> MaxOpens, deletes |-> 0,
               stores |-> 0, tampers |-> 0]

\* Annotations shared with other users: saves, opens and sync passes of this
\* device, and other users' uploads of the sidecar.
NextAnnot ==
  \/ ToggleDrive
  \/ \E a \in DOMAIN attachments, anns \in AnnotationLists : SaveStart(a, anns)
  \/ SaveDone
  \/ \E a \in DOMAIN attachments : OpenStart(a)
  \/ OpenDone
  \/ \E f \in DOMAIN drive : OtherUserSaves(f)
  \/ SyncStart
  \/ PullOk
  \/ PullFail
  \/ PushStep
  \/ DrainStep

SpecAnnot == InitAnnot /\ [][NextAnnot]_vars

InitLibrary ==
  /\ Fresh
  /\ remote = <<>>
  /\ budget = [creates |-> 0, edits |-> 0, redits |-> 0, calls |-> MaxCalls,
               sidecars |-> 0, opens |-> 0, deletes |-> MaxDeletes,
               stores |-> 0, tampers |-> 0]

\* PDFs added to the group library, by calls that may overlap and that a
\* crash of the process may end, and items deleted.
NextLibrary ==
  \/ ToggleDrive
  \/ \E c \in Checksums : AddPdfStart(c)
  \/ \E c \in Checksums : AddPdfDuplicate(c)
  \/ \E n \in DOMAIN addCall : AddPdfDone(n)
  \/ \E n \in DOMAIN addCall : Crash(n)
  \/ \E i \in DOMAIN items : DeleteItem(i)

SpecLibrary == InitLibrary /\ [][NextLibrary]_vars

\* The upload queue over time: entries are created and retried at different
\* times, the file store being reachable or not for the whole behaviour.
NextTimedQueue ==
  \/ Tick
  \/ \E c \in Checksums : AddPdfStart(c)
  \/ \E n \in DOMAIN addCall : AddPdfDone(n)
  \/ \E a \in DOMAIN attachments, anns \in AnnotationLists : SaveStart(a, anns)
  \/ SaveDone
  \/ SyncStart
  \/ PullOk
  \/ PullFail
  \/ PushStep
  \/ DrainStep

SpecTimedQueue == InitQueue /\ [][NextTimedQueue]_vars

\* After one addPdfToGroup call that returned, or that the end of the process
\* interrupted between its commit and storePdf.
InitCache ==
  /\ \E ch \in {<<>>, Stored(<<>>, "c1", BytesOf("c1"))} : PdfAdded(ch)
  /\ budget = [creates |-> 0, edits |-> 0, redits |-> 0, calls |-> 0,
               sidecars |-> 0, opens |-> MaxCacheOpens, deletes |-> 0,
               stores |-> MaxStores, tampers |-> MaxTampers]

\* The PDF cache: PDFs opened (and downloaded when missing or invalid),
\* files stored, a cached file overwritten from outside.
NextCache ==
  \/ ToggleDrive
  \/ \E a \in DOMAIN attachments : OpenStart(a)
  \/ \E a \in DOMAIN attachments : OpenUncached(a)
  \/ OpenDownloaded
  \/ \E c \in Checksums, bytes \in FileBytes : StoreStart(c, bytes)
  \/ \E n \in DOMAIN storeCall : StoreDone(n)
  \/ \E c \in Checksums : Tamper(c)

SpecCache == InitCache /\ [][NextCache]_vars

\* No library, no call in flight.
Idle ==
  /\ Fresh
  /\ ~libRoot /\ ~driveOnline
  /\ remote = <<>>
  /\ budget = [creates |-> 0, edits |-> 0, redits |-> 0, calls |-> 0,
               sidecars |-> 0, opens |-> 0, deletes |-> 0,
               stores |-> 0, tampers |-> 0]

\* One withRetry call, for every maxRetries and every way fn can end.
NextRetry ==
  \/ \E n \in 0..MaxRetriesArg : RetryStart(n)
  \/ FnReturns
  \/ \E err \in UNION {Throwables(k) : k \in 1..(MaxRetriesArg + 1)} : FnThrows(err)
  \/ DelayEnds

SpecRetry == Idle /\ [][NextRetry]_vars

\* One mergeAnnotations call, for every pair of lists.
NextMerge ==
  /\ mergeCall = <<>>
  /\ \E local \in MergeInputs, rem \in MergeInputs : Merge(local, rem)

SpecMerge == Idle /\ [][NextMerge]_vars

\* One parseSidecar call, for every text.
NextParse ==
  /\ parseCall = <<>>
  /\ \E text \in SidecarTexts : Parse(text)

SpecParse == Idle /\ [][NextParse]_vars

\* The items other users hold at the remote authority, this device creating
\* none.
BatchItems ==
  [i \in 1..MaxBatch |->
     [version |-> 1, modifiedAt |-> IsoText([day |-> 1, tick |-> 0]),
      title |-> "base", deleted |-> FALSE]]

InitPull ==
  /\ Fresh
  /\ remote = BatchItems
  /\ budget = [creates |-> 0, edits |-> MaxLocalEdits, redits |-> MaxRemoteEditsOfItems,
               calls |-> 0, sidecars |-> 0, opens |-> 0, deletes |-> 0,
               stores |-> 0, tampers |-> 0]

\* The pull phase: other users edit and soft-delete items, the local store
\* fails on an item, getChanges fails.
NextPull ==
  \/ Tick
  \/ \E i \in DOMAIN remote : RemoteEdit(i)
  \/ \E i \in DOMAIN remote : RemoteDelete(i)
  \/ \E i \in DOMAIN items : UpdateItem(i)
  \/ SyncStart
  \/ PullOk
  \/ PullFail
  \/ \E k \in 1..MaxBatch : PullItemFails(k)
  \/ PushStep

SpecPull == InitPull /\ [][NextPull]_vars

\* A device without a Drive folder for the library, its upload queue empty.
InitPullFair ==
  /\ Fresh
  /\ ~libRoot /\ ~driveOnline
  /\ remote = BatchItems
  /\ budget = [creates |-> 0, edits |-> 0, redits |-> MaxRemoteEditsOfItems,
               calls |-> 0, sidecars |-> 0, opens |-> 0, deletes |-> 0,
               stores |-> 0, tampers |-> 0]

\* The pull phase on a device whose user edits nothing: every change comes
\* from the remote authority.
NextPullFair ==
  \/ Tick
  \/ \E i \in DOMAIN remote : RemoteEdit(i)
  \/ SyncStart
  \/ PullOk
  \/ PullFail
  \/ \E k \in 1..MaxBatch : PullItemFails(k)
  \/ PushStep

\* Sync passes keep running, every awaited call is answered, and the remote
\* authority is reachable again and again: getChanges keeps succeeding.
SpecPullFair ==
  /\ InitPullFair /\ [][NextPullFair]_vars
  /\ WF_vars(SyncStart)
  /\ SF_vars(PullOk)
  /\ WF_vars(PullOk \/ PullFail)
  /\ WF_vars(PushStep)

\* The upload queue with uploads the caller cancels.
NextCancel ==
  \/ ToggleDrive
  \/ \E c \in Checksums : AddPdfStart(c)
  \/ \E n \in DOMAIN addCall : AddPdfDone(n)
  \/ \E a \in DOMAIN attachments, anns \in AnnotationLists : SaveStart(a, anns)
  \/ SaveDone
  \/ SyncStart
  \/ PullOk
  \/ PullFail
  \/ PushStep
  \/ DrainStep
  \/ DrainCancelled

SpecCancel == InitQueue /\ [][NextCancel]_vars

\* ---------------------------------------------------------------------------
\* Claims
\* ---------------------------------------------------------------------------

\* C1: the pulling phase never changes the row of a local item that carries
\* a local edit which no pass has pushed successfully yet.
C1_PullKeepsUnpushedEdits ==
  [][pc = "pulling" /\ pc' # "pulling" =>
       \A i \in unpushed : items'[i] = items[i]]_vars

\* C2: a pass whose response carries version 3 of the one local item, held
\* at version 2 and modified after the cursor, leaves the row alone in the
\* pull and returns conflicts = 1.
C2_ConflictCountedOnce ==
  [][\A b \in bothChanged' :
       b.local = 2 /\ b.remote = 3 /\ DOMAIN items' = {b.id} =>
         /\ pc = "pulling" /\ pc' # "pulling" => items'[b.id] = items[b.id]
         /\ pc # "idle" /\ pc' = "idle" => result'.conflicts = 1]_vars

\* C3: a locally edited item whose latest push was rejected or failed stays
\* dirty: the selection of the next pass holds it again.
C3_FailedPushSelectedAgain ==
  [][pc = "pulling" /\ pc' # "pulling" =>
       \A i \in pushFailed \cap unpushed :
          \E k \in DOMAIN pushList' : pushList'[k].id = i]_vars

\* The blob or sidecar of queue entry e has a file on the file store.
Uploaded(e) ==
  IF queue[e].type = "pdf"
  THEN attachments[queue[e].targetId].driveFileId # 0
  ELSE annSets[queue[e].targetId].driveFileId # 0

\* C4: if the library has its folder on the file store, the file store
\* becomes and stays reachable and passes keep running, every queue entry
\* eventually is completed with its blob or sidecar on the file store.
C4_EveryEntryEventuallyUploaded ==
  (libRoot /\ <>[]driveOnline) =>
    \A e \in 1..MaxCalls :
      [](e \in DOMAIN queue =>
           <>(e \in DOMAIN queue /\ queue[e].status = "completed" /\ Uploaded(e)))

PushCount(res) == res.pushed + res.conflicts + res.errors

\* C6: the selection of the push phase holds every local item modified after
\* the cursor exactly once, and each answered pushItem moves on to the next
\* item and adds one to exactly one of pushed, conflicts and errors.
C6_PushPhase ==
  [][/\ pc = "pulling" /\ pc' # "pulling" =>
          \A i \in DOMAIN items' :
             After(items'[i].modifiedAt, since) =>
               Cardinality({k \in DOMAIN pushList' : pushList'[k].id = i}) = 1
     /\ pc = "pushing" /\ pushList' # pushList =>
          /\ pushList' = Tail(pushList)
          /\ PushCount(result') = PushCount(result) + 1
          /\ result'.pushed >= result.pushed
          /\ result'.conflicts >= result.conflicts
          /\ result'.errors >= result.errors
          /\ result'.pulled = result.pulled]_vars

C9_RetryAccounting ==
  [][/\ pc = "draining" /\ pendingList' # pendingList =>
          LET e == Head(pendingList).id
          IN IF driveOnline
             THEN /\ queue'[e].status = "completed"
                  /\ queue'[e].retryCount = queue[e].retryCount
             ELSE /\ queue'[e].retryCount = queue[e].retryCount + 1
                  /\ queue'[e].status =
                       IF queue'[e].retryCount = queue[e].maxRetries
                       THEN "failed" ELSE "pending"
     /\ \A e \in DOMAIN queue' :
          /\ queue'[e].retryCount <= queue'[e].maxRetries
          /\ queue'[e].status = "failed" <=>
               queue'[e].retryCount = queue'[e].maxRetries
          /\ e \in DOMAIN queue /\ queue'[e].retryCount # queue[e].retryCount =>
               pc = "draining" /\ e = Head(pendingList).id /\ ~driveOnline]_vars

\* One entry failed in every drain and is failed at maxRetries; another
\* failed once, succeeded in a later drain and is completed at retryCount 1.
C9_Witness ==
  /\ \E e \in DOMAIN queue :
       queue[e].status = "failed" /\ queue[e].retryCount = DefaultMaxRetries
  /\ \E e \in DOMAIN queue :
       /\ queue[e].status = "completed" /\ queue[e].retryCount = 1
       /\ attachments[queue[e].targetId].driveFileId # 0

\* C10: a completed or failed entry keeps every field in every step, and no
\* entry a drain still has to dispatch is completed or failed.
C10_TerminalEntriesStay ==
  [][/\ \A e \in DOMAIN queue :
          /\ e \in DOMAIN queue'
          /\ queue[e].status \in {"completed", "failed"} => queue'[e] = queue[e]
     /\ \A k \in DOMAIN pendingList' :
          queue'[pendingList'[k].id].status = "pending"]_vars

\* A drain dispatches an entry while another entry is failed at maxRetries.
C10_Witness ==
  /\ pc = "draining" /\ pendingList # <<>>
  /\ \E e \in DOMAIN queue :
       /\ queue[e].status = "failed" /\ queue[e].retryCount = queue[e].maxRetries
       /\ e # Head(pendingList).id

\* C11: a drain step whose handler fails writes retryCount + 1 and the error
\* message; when the new count reaches maxRetries the entry becomes failed,
\* otherwise it stays pending with nextRetryAt = the current time plus
\* 2^(new count) seconds.
C11_FailureSchedulesBackoff ==
  [][pc = "draining" /\ pendingList' # pendingList /\ ~driveOnline =>
       LET e == Head(pendingList).id
           n == queue[e].retryCount + 1
       IN /\ queue'[e].retryCount = n
          /\ queue'[e].errorMsg
          /\ IF n >= queue[e].maxRetries
             THEN /\ queue'[e].status = "failed"
                  /\ queue'[e].nextRetryAt = queue[e].nextRetryAt
             ELSE /\ queue'[e].status = "pending"
                  /\ queue'[e].nextRetryAt = <<[at |-> IsoText(now), plus |-> 2^n]>>]_vars

\* An entry that failed twice, the second time on day 2, waits 4 seconds from
\* then; another entry is failed with its error message.
C11_Witness ==
  /\ \E e \in DOMAIN queue :
       /\ queue[e].status = "pending" /\ queue[e].retryCount = 2
       /\ queue[e].nextRetryAt = <<[at |-> IsoText([day |-> 2, tick |-> 1]), plus |-> 4]>>
  /\ \E e \in DOMAIN queue :
       queue[e].status = "failed" /\ queue[e].errorMsg

\* C12: a drain selects every pending entry; by the end of the pass each
\* selected entry has been handed to its handler exactly once; a failing
\* handler adds one to errors and records the failure in its own entry only,
\* and the entries behind it stay in line.
C12_EveryEntryDispatchedOnce ==
  [][/\ drainLog'.selected # drainLog.selected /\ pc' # "pulling" =>
          drainLog'.selected = {e \in DOMAIN queue : queue[e].status = "pending"}
     /\ pc # "idle" /\ pc' = "idle" =>
          /\ Range(drainLog'.handed) = drainLog'.selected
          /\ Len(drainLog'.handed) = Cardinality(drainLog'.selected)
     /\ pc = "draining" /\ pendingList' # pendingList =>
          LET e == Head(pendingList).id
              behind == {pendingList[k].id : k \in 2..Len(pendingList)}
          IN /\ \E n \in 0..Cardinality(behind) : \E more \in [1..n -> behind] :
                  drainLog'.handed = drainLog.handed \o more
             /\ behind \subseteq Range(drainLog'.handed)
                                    \cup {pendingList'[k].id : k \in 2..Len(pendingList')}
             /\ \A x \in behind : queue'[x].retryCount = queue[x].retryCount
             /\ IF driveOnline THEN result'.errors = result.errors
                ELSE /\ result'.errors = result.errors + 1
                     /\ queue'[e].errorMsg
                     /\ queue'[e].retryCount = queue[e].retryCount + 1]_vars

\* A pass has ended whose drain selected two entries: the first failed, the
\* second was completed with its file uploaded, and one error was counted.
C12_Witness ==
  /\ pc = "idle" /\ Len(drainLog.handed) = 2
  /\ queue[drainLog.handed[1]].status = "pending"
  /\ queue[drainLog.handed[1]].retryCount = 1
  /\ queue[drainLog.handed[2]].status = "completed"
  /\ Uploaded(drainLog.handed[2])
  /\ result.errors = 1

Ids(anns) == {anns[k].id : k \in DOMAIN anns}

\* C14: when the queue's annotation handler uploads over a sidecar whose
\* revision is not the one stored in the annotation set, every annotation id
\* of the sidecar is still in the sidecar after the upload.
C14_HandlerKeepsRemoteAnnotations ==
  [][/\ pc = "draining" /\ pendingList' # pendingList /\ driveOnline
     /\ Head(pendingList).type = "annotation"
     /\ hsnap.driveFileId # 0
     /\ drive[hsnap.driveFileId].rev # annSets[Head(pendingList).targetId].driveRevision
     => Ids(drive[hsnap.driveFileId].annotations)
          \subseteq Ids(drive'[hsnap.driveFileId].annotations)]_vars

\* C15: when saveAnnotations finds a head revision other than the stored
\* one, the sidecar it uploads holds each id of the saved and of the remote
\* annotations once ({h1, n1} for {h1} and {n1}), with version
\* max(new local version, remote version) + 1.
C15_SaveMergesOnConflict ==
  [][/\ saveCall # <<>> /\ saveCall' = <<>> /\ driveOnline
     /\ saveCall[1].driveFileId # 0
     /\ drive[saveCall[1].driveFileId].rev # saveCall[1].driveRevision
     => LET c == saveCall[1]
            old == drive[c.driveFileId]
            up == drive'[c.driveFileId]
        IN /\ Ids(up.annotations) = Ids(c.annotations) \cup Ids(old.annotations)
           /\ Len(up.annotations) = Cardinality(Ids(c.annotations) \cup Ids(old.annotations))
           /\ Ids(c.annotations) = {"h1"} /\ Ids(old.annotations) = {"n1"} =>
                Ids(up.annotations) = {"h1", "n1"} /\ Len(up.annotations) = 2
           /\ up.version = (IF c.newVersion > old.version THEN c.newVersion
                                                          ELSE old.version) + 1
           /\ up.rev = old.rev + 1]_vars

\* The save of {h1} met the other user's {n1}: the sidecar holds both at
\* version max(3, 3) + 1, and the set is clean at that version.
C15_Witness ==
  \E st \in DOMAIN annSets :
    /\ annSets[st].driveFileId # 0
    /\ Ids(annSets[st].annotations) = {"h1"}
    /\ Ids(drive[annSets[st].driveFileId].annotations) = {"h1", "n1"}
    /\ drive[annSets[st].driveFileId].version = 4
    /\ annSets[st].localVersion = 4 /\ annSets[st].remoteVersion = 4
    /\ ~annSets[st].isDirty

\* The sidecar of set st holds every annotation the set stores, in the stored
\* or a later edit.
SidecarHolds(st, sets, drv) ==
  /\ sets[st].driveFileId # 0
  /\ \A a \in Range(sets[st].annotations) :
       \E r \in Range(drv[sets[st].driveFileId].annotations) :
         r.id = a.id /\ r.modifiedAt >= a.modifiedAt

\* C16: once the save and the pass that raced on a set have both returned,
\* a saved set with isDirty = false has a sidecar holding the annotations of
\* its latest local save (with no other writer of the set, those are the
\* annotations the set stores).
C16_CleanMeansLatestSaveUploaded ==
  pc = "idle" /\ saveCall = <<>> =>
    \A st \in DOMAIN annSets :
      annSets[st].localVersion > 1 /\ ~annSets[st].isDirty =>
        SidecarHolds(st, annSets, drive)

\* C17: in every state every annotation set has isDirty exactly when its
\* localVersion is greater than its remoteVersion.
C17_DirtyIffLocalAhead ==
  \A st \in DOMAIN annSets :
    annSets[st].isDirty <=> annSets[st].localVersion > annSets[st].remoteVersion

\* C18: createItem inserts a row at version 1; updateItem and deleteItem
\* each raise the version of their item by exactly one and leave every other
\* item alone, deleteItem setting the soft-delete flag; and no step, of a
\* local mutation or of a sync pass, removes an item or lowers its version.
C18_VersionCountsMutations ==
  [][/\ \A i \in DOMAIN items :
          i \in DOMAIN items' /\ items'[i].version >= items[i].version
     /\ budget'.creates < budget.creates =>
          \E i \in DOMAIN items' \ DOMAIN items :
             /\ items'[i].version = 1 /\ ~items'[i].deleted
             /\ \A x \in DOMAIN items : items'[x] = items[x]
     /\ budget'.edits < budget.edits =>
          \E i \in DOMAIN items :
             /\ items'[i].version = items[i].version + 1
             /\ items'[i].deleted = items[i].deleted
             /\ \A x \in DOMAIN items' \ {i} : x \in DOMAIN items /\ items'[x] = items[x]
     /\ budget'.deletes < budget.deletes =>
          \E i \in DOMAIN items :
             /\ items'[i].version = items[i].version + 1
             /\ items'[i].deleted
             /\ \A x \in DOMAIN items' \ {i} : x \in DOMAIN items /\ items'[x] = items[x]]_vars

\* An item created here has been updated and then deleted, and an item of
\* another user has been overwritten by a pull: versions 3 and 2 or more.
C18_Witness ==
  /\ \E i \in LocalIds : items[i].version = 3 /\ items[i].deleted
  /\ \E i \in DOMAIN items \cap RemoteItemIds :
       items[i].version >= 2 /\ items[i].title = "remote"

\* C19: no two attachments of the group library have the same checksum.
C19_ChecksumUniquePerLibrary ==
  \A a, b \in DOMAIN attachments :
    a # b => attachments[a].checksum # attachments[b].checksum

C21_AddIsAtomic ==
  /\ [](\A a \in DOMAIN attachments :
          /\ attachments[a].itemId \in DOMAIN items
          /\ Cardinality({st \in DOMAIN annSets : annSets[st].attachmentId = a}) = 1)
  /\ [][(\/ DOMAIN items' # DOMAIN items
         \/ DOMAIN attachments' # DOMAIN attachments
         \/ DOMAIN annSets' # DOMAIN annSets) =>
          \E id \in DOMAIN items' \ DOMAIN items,
             a \in DOMAIN attachments' \ DOMAIN attachments,
             st \in DOMAIN annSets' \ DOMAIN annSets :
            /\ DOMAIN items' = DOMAIN items \cup {id}
            /\ DOMAIN attachments' = DOMAIN attachments \cup {a}
            /\ DOMAIN annSets' = DOMAIN annSets \cup {st}
            /\ attachments'[a].itemId = id
            /\ annSets'[st].attachmentId = a]_vars

\* C21 witness: the process died between the commit and storePdf: the rows
\* of the add are in the local store, the file is not in the cache.
C21_Witness ==
  /\ addCall = <<>>
  /\ \E a \in DOMAIN attachments :
       /\ GetPdfPath(cache, attachments[a].checksum) = <<>>
       /\ attachments[a].itemId \in DOMAIN items
       /\ \E st \in DOMAIN annSets : annSets[st].attachmentId = a

\* C22: an entry whose upload the caller cancelled during the drain of the
\* current pass is still pending, whatever its retry count.
C22_CancelledStaysPending ==
  \A e \in drainLog.cancelled : queue[e].status = "pending"

\* C23: when openPdfForAnnotate throws IntegrityError for a download, no
\* file is left at the cache path of the attachment's checksum: getPdfPath
\* reports absent.
C23_BadDownloadNotCached ==
  [][openCall # <<>> /\ openCall' = <<>> /\ openError' = "Integrity" =>
       GetPdfPath(cache', attachments[openCall[1].download].checksum) = <<>>]_vars

\* C24: when the first storePdf call returns, for a source whose bytes hash
\* to the checksum, the returned path is valid for the checksum, whatever
\* opens and downloads came before (no file having been overwritten from
\* outside).
C24_StoredIsValid ==
  [][(/\ storeRet.n = 0 /\ storeRet'.n = 1 /\ storeCall = <<>>
      /\ budget.tampers = MaxTampers
      /\ ComputeSHA256(storeRet'.bytes) = storeRet'.checksum) =>
       IsValid(cache', storeRet'.path, storeRet'.checksum)]_vars

\* C25: a storePdf call for a checksum that has a file in the cache returns
\* the same path as the call before it for that checksum, copies nothing and
\* leaves the cache as it is, whatever bytes its source holds.
C25_StoreKeepsFirst ==
  [][budget'.stores < budget.stores =>
       \/ /\ storeCall' # storeCall
          /\ GetPdfPath(cache, storeCall'[Len(storeCall')].checksum) = <<>>
       \/ /\ storeRet'.n = storeRet.n + 1
          /\ storeRet'.path = GetPdfPath(cache, storeRet'.checksum)
          /\ storeRet'.path # <<>>
          /\ (storeRet.checksum = storeRet'.checksum => storeRet'.path = storeRet.path)
          /\ cache' = cache
          /\ storeCall' = storeCall]_vars

\* C25 witness: a second storePdf for the checksum c2 returned, given bytes
\* other than those the first call copied, and the file still holds the
\* first call's bytes.
C25_Witness ==
  /\ storeRet.n = 2 /\ ~storeRet.copied
  /\ storeRet.checksum = "c2"
  /\ storeRet.bytes = "pdf1"
  /\ cache["c2"] = "pdf2"

\* C26 as stated: withRetry(fn, n) calls fn at most n + 1 times, returns at
\* the first call that succeeds, and after n + 1 failed calls throws the very
\* value the last call threw.
C26_ThrowsLastErrorUnchanged ==
  \A k \in DOMAIN retryCall :
    LET c == retryCall[k]
    IN /\ c.calls <= c.maxRetries + 1
       /\ c.status = "returned" => c.calls = Len(c.thrown) + 1 /\ c.out = <<"ok">>
       /\ c.status = "threw" =>
            /\ c.calls = c.maxRetries + 1 /\ Len(c.thrown) = c.calls
            /\ c.out = <<c.thrown[Len(c.thrown)]>>

\* C26 amended: as above, but what is thrown is the last call's value itself
\* only when that is an Error; any other value is replaced by a new Error
\* with the value's string form as message.
C26_ThrowsLastErrorAsError ==
  \A k \in DOMAIN retryCall :
    LET c == retryCall[k]
    IN /\ c.calls <= c.maxRetries + 1
       /\ c.status = "returned" => c.calls = Len(c.thrown) + 1 /\ c.out = <<"ok">>
       /\ c.status = "threw" =>
            /\ c.calls = c.maxRetries + 1 /\ Len(c.thrown) = c.calls
            /\ LET last == c.thrown[Len(c.thrown)]
               IN IF last.isError THEN c.out = <<last>>
                  ELSE /\ c.out[1].isError /\ c.out[1].message = last.message
                       /\ c.out[1] \notin Range(c.thrown)

\* C26 witness: withRetry(fn, 2) has thrown after three failed calls: two
\* Errors, then a value that is not an Error.
C26_Witness ==
  /\ retryCall # <<>>
  /\ retryCall[1].status = "threw"
  /\ retryCall[1].maxRetries = 2 /\ retryCall[1].calls = 3
  /\ retryCall[1].thrown[1].isError /\ retryCall[1].thrown[2].isError
  /\ ~retryCall[1].thrown[3].isError

\* C27: for all lists local and remote, the identities in
\* mergeAnnotations(local, remote) are exactly those of local together with
\* those of remote, each exactly once; an annotation whose identity occurs
\* once, on one side only, is in the output as it was given.
C27_MergeIsUnionOfIds ==
  \A n \in DOMAIN mergeCall :
    LET c == mergeCall[n]
        ids(s) == {s[k].id : k \in DOMAIN s}
        times(s, i) == Cardinality({k \in DOMAIN s : s[k].id = i})
    IN /\ ids(c.out) = ids(c.local) \cup ids(c.remote)
       /\ \A i \in ids(c.out) : times(c.out, i) = 1
       /\ \A k \in DOMAIN c.local :
            (times(c.local, c.local[k].id) = 1 /\ c.local[k].id \notin ids(c.remote))
              => c.local[k] \in Range(c.out)
       /\ \A k \in DOMAIN c.remote :
            (times(c.remote, c.remote[k].id) = 1 /\ c.remote[k].id \notin ids(c.local))
              => c.remote[k] \in Range(c.out)

\* C27 witness: a local list that holds "a" twice was merged with a remote
\* list that holds only "b": the output has one "a" and the "b".
C27_Witness ==
  /\ mergeCall # <<>>
  /\ Len(mergeCall[1].local) = 2
  /\ mergeCall[1].local[1].id = "a" /\ mergeCall[1].local[2].id = "a"
  /\ mergeCall[1].local[1] # mergeCall[1].local[2]
  /\ Len(mergeCall[1].remote) = 1 /\ mergeCall[1].remote[1].id = "b"
  /\ Len(mergeCall[1].out) = 2

\* C28: for an identity that local and remote each hold once, the output
\* holds exactly one annotation of that identity: the remote one when its
\* modifiedAt is strictly later, the local one otherwise (equal modifiedAt
\* included).
C28_LaterWinsLocalOnTies ==
  \A n \in DOMAIN mergeCall :
    LET c == mergeCall[n]
    IN \A j \in DOMAIN c.local, k \in DOMAIN c.remote :
         (/\ c.local[j].id = c.remote[k].id
          /\ Cardinality({x \in DOMAIN c.local : c.local[x].id = c.local[j].id}) = 1
          /\ Cardinality({x \in DOMAIN c.remote : c.remote[x].id = c.local[j].id}) = 1)
           => LET kept == {x \in DOMAIN c.out : c.out[x].id = c.local[j].id}
              IN /\ Cardinality(kept) = 1
                 /\ \A x \in kept :
                      c.out[x] = IF c.remote[k].modifiedAt > c.local[j].modifiedAt
                                 THEN c.remote[k] ELSE c.local[j]

\* C28 witness: local and remote hold "a" with the same modifiedAt at
\* different places, and the output holds the local one.
C28_Witness ==
  /\ mergeCall # <<>>
  /\ Len(mergeCall[1].local) = 1 /\ Len(mergeCall[1].remote) = 1
  /\ mergeCall[1].local[1].id = "a" /\ mergeCall[1].remote[1].id = "a"
  /\ mergeCall[1].local[1].modifiedAt = mergeCall[1].remote[1].modifiedAt
  /\ mergeCall[1].local[1] # mergeCall[1].remote[1]
  /\ mergeCall[1].out = <<mergeCall[1].local[1]>>

\* C29: when every two annotations of one identity, one of A and one of B,
\* have different modifiedAt, mergeAnnotations(A, B) and
\* mergeAnnotations(B, A) hold the same set of annotations.
C29_MergeCommutes ==
  \A n \in DOMAIN mergeCall :
    LET c == mergeCall[n]
    IN (\A j \in DOMAIN c.local, k \in DOMAIN c.remote :
          c.local[j].id = c.remote[k].id
            => c.local[j].modifiedAt # c.remote[k].modifiedAt)
         => Range(c.out) = Range(c.swapped)

\* C29 amended: as above, for lists A and B neither of which holds an
\* identity more than once.
C29_MergeCommutesWithoutRepeats ==
  \A n \in DOMAIN mergeCall :
    LET c == mergeCall[n]
        once(s) == \A j, k \in DOMAIN s : s[j].id = s[k].id => j = k
    IN (/\ once(c.local) /\ once(c.remote)
        /\ \A j \in DOMAIN c.local, k \in DOMAIN c.remote :
             c.local[j].id = c.remote[k].id
               => c.local[j].modifiedAt # c.remote[k].modifiedAt)
         => Range(c.out) = Range(c.swapped)

\* C29 witness: A holds "a" and "b", B holds an older "a" and a newer "b";
\* both orders of the merge give A's "a" and B's "b".
C29_Witness ==
  /\ mergeCall # <<>>
  /\ Len(mergeCall[1].local) = 2 /\ Len(mergeCall[1].remote) = 2
  /\ mergeCall[1].local[1].id = "a" /\ mergeCall[1].local[2].id = "b"
  /\ mergeCall[1].remote[1].id = "a" /\ mergeCall[1].remote[2].id = "b"
  /\ mergeCall[1].local[1].modifiedAt = 2 /\ mergeCall[1].remote[1].modifiedAt = 1
  /\ mergeCall[1].local[2].modifiedAt = 1 /\ mergeCall[1].remote[2].modifiedAt = 2
  /\ Range(mergeCall[1].out) = {mergeCall[1].local[1], mergeCall[1].remote[2]}
  /\ Range(mergeCall[1].swapped) = Range(mergeCall[1].out)

\* C30: the output of mergeAnnotations is ordered by ascending page and,
\* within a page, by descending position, the position being the y1 of the
\* top-most rectangle (the largest y1), or the y of the note point, or 0.
C30_SortedByTopMostRect ==
  \A n \in DOMAIN mergeCall :
    LET out == mergeCall[n].out
        top(a) == IF a.rects # <<>>
                  THEN CHOOSE y \in {a.rects[k].y1 : k \in DOMAIN a.rects} :
                         \A k \in DOMAIN a.rects : a.rects[k].y1 <= y
                  ELSE IF a.position # <<>> THEN a.position[1].y ELSE 0
    IN \A j, k \in DOMAIN out :
         j < k => \/ out[j].page < out[k].page
                  \/ out[j].page = out[k].page /\ top(out[j]) >= top(out[k])

\* C30 amended: as above, the position being the y1 of the first rectangle
\* of the annotation, or the y of the note point, or 0.
C30_SortedByFirstRect ==
  \A n \in DOMAIN mergeCall :
    LET out == mergeCall[n].out
        first(a) == IF a.rects # <<>> THEN a.rects[1].y1
                    ELSE IF a.position # <<>> THEN a.position[1].y ELSE 0
    IN \A j, k \in DOMAIN out :
         j < k => \/ out[j].page < out[k].page
                  \/ out[j].page = out[k].page /\ first(out[j]) >= first(out[k])

\* C30 witness: a two-line highlight on page 1 whose first rectangle is at
\* 100 and whose second is at 700 was merged with a note at 500 on the same
\* page, given first; the output has the note first.
C30_Witness ==
  /\ mergeCall # <<>>
  /\ Len(mergeCall[1].local) = 1 /\ Len(mergeCall[1].remote) = 1
  /\ mergeCall[1].local[1].id = "a" /\ mergeCall[1].local[1].page = 1
  /\ Len(mergeCall[1].local[1].rects) = 2
  /\ mergeCall[1].remote[1].id = "b" /\ mergeCall[1].remote[1].position # <<>>
  /\ mergeCall[1].out = <<mergeCall[1].remote[1], mergeCall[1].local[1]>>

C32_InsertedEqualsRemote ==
  [][pc = "pulling" /\ pc' # "pulling" =>
       /\ \A i \in DOMAIN items' \ DOMAIN items : items'[i] = remote[i]
       /\ result'.pulled >= Cardinality(DOMAIN items' \ DOMAIN items)]_vars

\* C33: when applying one item of a getChanges batch fails, every other
\* item of the batch is applied in the same pass: at most one item that
\* the pull would insert or overwrite is left as it was.
C33_OtherItemsStillApplied ==
  [][pc = "pulling" /\ pc' # "pulling" /\ "pullItemFailed" \in Range(passLog') =>
       Cardinality({r \in Range(GetChanges(remote, since)) :
                      \/ r.id \notin DOMAIN items /\ r.id \notin DOMAIN items'
                      \/ /\ r.id \in DOMAIN items
                         /\ r.row.version > items[r.id].version
                         /\ ~LocalDirty(items[r.id], since)
                         /\ items'[r.id] = items[r.id]}) <= 1]_vars

\* C39: the push phase of a pass selects no item that the pull phase of the
\* same pass has just inserted or overwritten.
C39_PulledNotPushedBack ==
  [][pc = "pulling" /\ pc' # "pulling" =>
       \A k \in DOMAIN pushList' :
          /\ pushList'[k].id \in DOMAIN items
          /\ items'[pushList'[k].id] = items[pushList'[k].id]]_vars

\* C34: an item that createItem, updateItem or deleteItem wrote after a sync
\* pass committed its cursor (the row's modifiedAt, written by the local
\* store, is a later instant than the cursor the next pass reads), and that
\* the pull of that pass leaves alone, is selected by its push phase.
C34_LocalWriteSelectedByNextPass ==
  [][pc = "pulling" /\ pc' # "pulling" /\ cursor # <<>> =>
       \A i \in DOMAIN items :
          (/\ items[i].modifiedAt.fmt = "sql"
           /\ After(items[i].modifiedAt, cursor[1])
           /\ items'[i] = items[i])
            => \E k \in DOMAIN pushList' : pushList'[k].id = i]_vars

\* C35: whenever the remote authority holds an item, or a version of an
\* item, that the local store does not (the change being older than the
\* current time), then eventually the local store
\* holds it, or a pass has flagged the item as a conflict (in its pull, or
\* by a rejected push), passes running for ever and getChanges succeeding
\* again and again.
C35_RemoteChangeEventuallySeen ==
  \A i \in 1..MaxBatch :
    (/\ i \in DOMAIN remote
     /\ i \notin DOMAIN items \/ remote[i].version > items[i].version
     /\ After(IsoText(now), remote[i].modifiedAt))
      ~> (\/ i \in DOMAIN items /\ items[i].version >= remote[i].version
          \/ \E b \in bothChanged : b.id = i
          \/ i \in pushFailed)

\* C36: when a saveAnnotations call finds the sidecar at another revision
\* than the stored one, merges and uploads, the annotation sequence stored
\* locally afterwards is the merged sequence that was uploaded.
C36_MergedSaveStoredLocally ==
  [][(/\ saveCall # <<>> /\ saveCall' = <<>>
      /\ driveOnline
      /\ saveCall[1].driveFileId # 0
      /\ drive[saveCall[1].driveFileId].rev # saveCall[1].driveRevision)
       => /\ ~annSets'[saveCall[1].set].isDirty
          /\ annSets'[saveCall[1].set].annotations
               = drive'[saveCall[1].driveFileId].annotations]_vars

\* C37: an entry is handed to its handler only when it has no nextRetryAt or
\* the clock has passed the time of the failure that wrote it (a necessary
\* condition of having reached nextRetryAt, 2^k seconds after that failure).
C37_NotHandedBeforeNextRetryAt ==
  [][LET entering == "drain" \in Range(passLog') /\ "drain" \notin Range(passLog)
         newly == IF entering THEN drainLog'.handed
                  ELSE IF pc = "draining" /\ pendingList' # pendingList
                       THEN SubSeq(drainLog'.handed, Len(drainLog.handed) + 1,
                                   Len(drainLog'.handed))
                       ELSE <<>>
     IN \A k \in DOMAIN newly :
          \/ queue[newly[k]].nextRetryAt = <<>>
          \/ After(IsoText(now), queue[newly[k]].nextRetryAt[1].at)]_vars

\* C38: a completed queue entry has its remote effect: the attachment of a
\* pdf entry, or the AnnotationSet of an annotation entry, exists and has a
\* file on the file store.
C38_CompletedHasRemoteEffect ==
  \A e \in DOMAIN queue :
    queue[e].status = "completed" =>
      IF queue[e].type = "pdf"
      THEN /\ queue[e].targetId \in DOMAIN attachments
           /\ attachments[queue[e].targetId].driveFileId \in DOMAIN drive
      ELSE /\ queue[e].targetId \in DOMAIN annSets
           /\ annSets[queue[e].targetId].driveFileId \in DOMAIN drive

\* C40: every upload of this client that replaces the sidecar of an
\* attachment, by saveAnnotations or by the queue drain, writes a version
\* greater than the version the sidecar held.
C40_SidecarVersionIncreases ==
  [][\A f \in DOMAIN drive :
       (/\ drive[f].kind = "sidecar"
        /\ drive'[f] # drive[f])
         => drive'[f].version > drive[f].version]_vars

====
